---- MODULE Spec2Model ----
(***************************************************************************)
(* Session validation and auth-state lifecycle of the tracker application. *)
(*                                                                         *)
(* Two layers are modelled:                                                *)
(*   - the server-validating auth adapter (supabaseAuth.ts): the cached    *)
(*     currentUser, validateSessionWithServer, getSession and the module   *)
(*     level listener for provider events;                                 *)
(*   - the App shell (second App of unnamed/part_002): validateAndInitAuth *)
(*     racing getSession against a timer, the auth subscription callback,  *)
(*     and the persistence / sign-out / password handlers.                 *)
(*                                                                         *)
(* The auth provider and the store are the environment.  Every call to     *)
(* them is a suspension point; the matching "...Returns" action is the     *)
(* continuation of the awaiting function after the call settles with one   *)
(* of the outcomes the call can have: a value, an error result, or a       *)
(* thrown exception.  A call never settles while the backend is            *)
(* unreachable.                                                            *)
(***************************************************************************)
EXTENDS Integers, Sequences, FiniteSets, TLC

\* ---------------------------------------------------------------- bounds
MaxVal == 3          \* validateSessionWithServer invocations per run
MaxEvents == 2       \* provider-pushed auth events per run
MaxOps == 1          \* persistence handlers in flight at the same time
MaxAdds == 1         \* entries created through the form per run
MaxLog == 3          \* provider events seen by a recording subscriber
MaxLoads == 1        \* loadTrackers calls in flight at the same time
MaxCreates == 1      \* trackers created through the selector per run
MaxEnsures == 2      \* provisioning calls for the user per run
MaxClicks == 2       \* onboarding creations started per run
OutOfRange == 2      \* how far below 1 and above 10 a rendered value lies

\* ----------------------------------------------------------- value domains
NULL == "null"
Users == {"u1", "u2"}
MaybeUser == Users \cup {NULL}

ProviderEvents ==
  {"SIGNED_IN", "SIGNED_OUT", "TOKEN_REFRESHED", "PASSWORD_RECOVERY",
   "INITIAL_SESSION", "USER_UPDATED"}

\* Sessions a provider event of each kind can carry: SIGNED_OUT carries no
\* session, INITIAL_SESSION may or may not, the others carry one.
EventSessions(e) ==
  IF e = "SIGNED_OUT" THEN {NULL}
  ELSE IF e = "INITIAL_SESSION" THEN MaybeUser
  ELSE Users

\* Outcomes of the provider's getUser(): a user, an error result, an empty
\* result, or an exception.
GetUserOutcomes == Users \cup {"error", "nouser", "throw"}
\* Outcomes of signOut(), updateUser(): {error: null}, {error}, exception.
CallOutcomes == {"ok", "error", "throw"}

VARIABLES
  \* --- adapter (supabaseAuth.ts)
  currentUser,                \* module-level cache read by getUser()
  initialValidationComplete,
  val,                        \* invocations of validateSessionWithServer
  nval,                       \* how many have been started
  gs,                         \* the App's auth.getSession() call
  cacheWriter,                \* who wrote currentUser last (history): a
                              \* validation and its number, or the listener
                              \* and the validations started before it ran
  \* --- environment
  reachable,                  \* the backend answers calls
  nEvents,                    \* provider events pushed so far
  \* --- App shell
  user,
  authLoading,
  initPc,                     \* position of validateAndInitAuth
  initOutcome,                \* how validateAndInitAuth ended (history)
  initSignOuts,               \* signOut calls made by validateAndInitAuth
  entries,
  emailConfirmed,
  passwordRecoveryOpen,
  urlMarker,                  \* the URL hash carries a confirmation marker
  toast,                      \* the toast raised by the current step
  effectsDue,                 \* user / currentTracker changed since the
                              \* effects that depend on them last ran
  \* --- App shell, data plane and dialogs
  loading,
  currentTracker,
  ensureInFlight,             \* pending ensureDefaultTracker() calls, each
                              \* with the user whose render issued it
  ops,                        \* persistence handlers awaiting db / signOut
  nextId,                     \* id of the next entry the form creates
  editingEntry,
  showForm,
  newPassword,
  confirmPassword,
  updatingPassword,
  pwPc,                       \* position of handlePasswordUpdate
  signOutPc,                  \* position of handleSignOut
  \* --- components modelled on their own
  pushed,                     \* events the provider handed to the port
  delivered,                  \* callbacks a recording subscriber received
  cfgPc,                      \* idle, resolved, rendered
  cfgPresetId,                \* arguments of the getTrackerConfig call
  cfgGenerated,
  cfgConfig,                  \* what the call returned
  cfgValue,                   \* intensity rendered with the configuration
  cfgLabel,
  cfgColor,
  selServer,                  \* ids of the trackers the service stores
  selDeleted,                 \* ids deleted successfully (history)
  selTrackers,                \* TrackerSelector: trackers
  selCurrent,                 \* the parent's currentTracker
  selLoading,                 \* TrackerSelector: loading
  selEffectDue,               \* the loadTrackers effect has to run
  selLoads,                   \* loadTrackers calls in flight
  trackerToDelete,
  deleteDialogOpen,
  deleting,
  delCall,                    \* handleDeleteTracker at its await
  createPc,                   \* create dialog: closed, open
  creating,                   \* TrackerSelector: creating
  generationStep,             \* TrackerSelector: generationStep
  createCall,                 \* the create handler at its await
  selCreated,                 \* trackers created so far
  dbUser,                     \* the user's auth.users row exists
  dbTrackers,                 \* the user's rows of table trackers
  ensureIds,                  \* ids the provisioning calls returned
  ensureCreated,              \* rows the provisioning calls inserted
  wsShown,                    \* the onboarding screen is mounted
  creatingPreset,             \* WelcomeScreen: creatingPreset
  wsCreating,                 \* WelcomeScreen: creating
  wsCalls,                    \* WelcomeScreen handlers at an await
  wsClicks                    \* onboarding creations started so far

adapterVars == <<currentUser, initialValidationComplete, val, nval, gs,
                 cacheWriter>>
\* a recording subscriber of the port's onAuthStateChange
logVars == <<pushed, delivered>>
\* one resolution of a tracker configuration
cfgVars == <<cfgPc, cfgPresetId, cfgGenerated, cfgConfig, cfgValue, cfgLabel,
             cfgColor>>
\* TrackerSelector's create handlers
createVars == <<creating, generationStep, createCall>>
\* TrackerSelector and the service behind it
selVars == <<selServer, selDeleted, selTrackers, selCurrent, selLoading,
             selEffectDue, selLoads, trackerToDelete, deleteDialogOpen,
             deleting, delCall, createPc, selCreated, createVars>>
\* the trackers table, its provisioning functions and the onboarding screen
provVars == <<dbUser, dbTrackers, ensureIds, ensureCreated, wsShown,
              creatingPreset, wsCreating, wsCalls, wsClicks>>
compVars == <<logVars, cfgVars, selVars, provVars>>
envVars == <<reachable, nEvents, compVars>>
initVars == <<authLoading, initPc, initOutcome, initSignOuts>>
\* state the subscription callback writes
cbVars == <<user, entries, emailConfirmed, passwordRecoveryOpen, urlMarker,
            toast, effectsDue>>
appVars == <<initVars, cbVars>>
dataVars == <<loading, currentTracker, ensureInFlight, ops, nextId,
              editingEntry, showForm>>
dialogVars == <<newPassword, confirmPassword, updatingPassword, pwPc,
                signOutPc>>
uiVars == <<dataVars, dialogVars>>
vars == <<adapterVars, envVars, appVars, uiVars>>

\* ---------------------------------------------------- data-plane values
Trackers == {"t1", "t2"}
\* The tracker ensureDefaultTracker() finds or creates.
DefaultTracker == "t1"

\* An entry, reduced to its key, its tracker and whether it was edited.
Entry(id, t, rev) == [id |-> id, tracker_id |-> t, rev |-> rev]

\* Ids: the store already holds entry StoredId of each tracker; the form
\* creates fresh ids from FirstNewId on.
StoredId == 1
FirstNewId == 2

\* `null` where an entry is expected.
NoEntry == Entry(0, NULL, 0)

NoOp ==
  [kind |-> "none", pc |-> "none", tracker |-> NULL, entry |-> NoEntry]

\* ------------------------------------------------------- adapter helpers
NoVal == [pc |-> "none", owner |-> "none", res |-> NULL, so |-> 0]

InFlight(i) == val[i].pc \in {"getUser", "signOutTry", "signOutCatch"}
Settled(i) == val[i].pc \in {"done", "rejected"}

\* `error || !user` at the head of validateSessionWithServer.
GetUserFailed(o) == o \in {"error", "nouser"}

\* A fresh invocation runs synchronously up to `await auth.getUser()`.
StartedVal(owner) == [pc |-> "getUser", owner |-> owner, res |-> NULL, so |-> 0]

\* A listener that trusts the event payload, as the cache-first revision of
\* the adapter does.
ListenerCache_FromPayload(e, s, cur) ==
  IF s = NULL THEN NULL
  ELSE IF e \in {"SIGNED_IN", "TOKEN_REFRESHED"} THEN s
  ELSE cur

\* Module-level listener, synchronous part: a null session clears the cache,
\* anything else leaves it to a server validation.
ListenerCache(e, s, cur) == IF s = NULL THEN NULL ELSE cur

\* Module-level listener: events that start validateSessionWithServer.
ListenerValidates(e, s) ==
  s # NULL /\ e \in {"SIGNED_IN", "TOKEN_REFRESHED"}

\* The mapping of the revision that knows no PASSWORD_RECOVERY
\* (adapters/supabase/supabaseAuth.ts).
mappedEvent_DropsRecovery(e) ==
  CASE e \in {"SIGNED_IN", "INITIAL_SESSION"} -> "SIGNED_IN"
    [] e = "SIGNED_OUT" -> "SIGNED_OUT"
    [] e = "TOKEN_REFRESHED" -> "TOKEN_REFRESHED"
    [] OTHER -> "IGNORED"

\* Event mapping of the port's onAuthStateChange wrapper, in the revision
\* that forwards PASSWORD_RECOVERY to the App (unnamed/part_001).
mappedEvent(e) ==
  CASE e \in {"SIGNED_IN", "INITIAL_SESSION"} -> "SIGNED_IN"
    [] e = "SIGNED_OUT" -> "SIGNED_OUT"
    [] e = "TOKEN_REFRESHED" -> "TOKEN_REFRESHED"
    [] e = "PASSWORD_RECOVERY" -> "PASSWORD_RECOVERY"
    [] OTHER -> "IGNORED"

\* ------------------------------------------- App subscription callback
\* The callback passed to auth.onAuthStateChange, as next-state functions
\* of the mapped event m and the session user s.
CbUser(m, s, u) == IF m = "IGNORED" THEN u ELSE s

CbConfirms(m, s, marker) == m = "SIGNED_IN" /\ s # NULL /\ marker

CbEmailConfirmed(m, s, marker, ec) ==
  IF m = "SIGNED_OUT" THEN FALSE
  ELSE IF CbConfirms(m, s, marker) THEN TRUE
  ELSE ec

\* A callback that leaves the marker in the URL.
CbUrlMarker_Keeps(m, s, marker) == marker

CbUrlMarker(m, s, marker) == IF CbConfirms(m, s, marker) THEN FALSE ELSE marker

CbRecoveryOpen(m, open) == IF m = "PASSWORD_RECOVERY" THEN TRUE ELSE open

\* A callback that keeps the loaded entries on SIGNED_OUT.
CbEntries_Keep(m, es) == es

CbEntries(m, es) == IF m = "SIGNED_OUT" THEN <<>> ELSE es

CbToast(m, s, marker) ==
  IF CbConfirms(m, s, marker) THEN "email_confirmed" ELSE "none"

\* setUser(n) over the current value u makes the effects that depend on
\* user run again unless both are null: every non-null value is a fresh
\* object.
NewIdentity(n, u) == ~(n = NULL /\ u = NULL)

CbEffectsDue(m, s, u, due) == due \/ (m # "IGNORED" /\ NewIdentity(s, u))

\* State the callback sets.
CallbackSets(e, s) ==
  LET m == mappedEvent(e) IN
    /\ user' = CbUser(m, s, user)
    /\ emailConfirmed' = CbEmailConfirmed(m, s, urlMarker, emailConfirmed)
    /\ urlMarker' = CbUrlMarker(m, s, urlMarker)
    /\ passwordRecoveryOpen' = CbRecoveryOpen(m, passwordRecoveryOpen)
    /\ entries' = CbEntries(m, entries)
    /\ effectsDue' = CbEffectsDue(m, s, user, effectsDue)

AppCallback(e, s) ==
  /\ CallbackSets(e, s)
  /\ toast' = CbToast(mappedEvent(e), s, urlMarker)

\* The provider notifies every subscriber of SIGNED_OUT (null session) when
\* a signOut() call clears the local session, before that call returns.
\* This is what the two subscribers do with it.
NotifySignedOut ==
  /\ currentUser' = ListenerCache("SIGNED_OUT", NULL, currentUser)
  /\ cacheWriter' = <<"listener", nval>>
  /\ CallbackSets("SIGNED_OUT", NULL)

\* What a signOut() call that settled with outcome o did to the
\* subscribers.
SignOutDelivers(o) ==
  IF o = "ok" THEN NotifySignedOut
  ELSE UNCHANGED <<currentUser, cacheWriter, user, emailConfirmed,
                   urlMarker, passwordRecoveryOpen, entries, effectsDue>>

\* The same for a caller that raises no toast of its own.
SignOutNotifies(o) ==
  /\ SignOutDelivers(o)
  /\ toast' = CbToast("SIGNED_OUT", NULL, urlMarker)

\* ------------------------------------------- validateSessionWithServer
\* Continuation of whoever awaits invocation i once it settles with
\* r \in Users \cup {NULL, "rejected"}: the module's .finally() for the
\* initial validation, supabaseAuth.getSession() for its own invocation,
\* nothing for the listener's.
AwaiterContinues(i, r) ==
  /\ initialValidationComplete' =
       (initialValidationComplete \/ val[i].owner = "init")
  /\ gs' = IF val[i].owner # "getSession" THEN gs
           ELSE IF r = "rejected" THEN [gs EXCEPT !.pc = "rejected"]
           ELSE IF r = NULL THEN [gs EXCEPT !.pc = "resolved", !.res = NULL]
           ELSE [gs EXCEPT !.pc = "tokens"]

\* `await supabaseClient.auth.getUser()` settles with outcome o.
ValGetUserReturns(i, o) ==
  /\ reachable
  /\ val[i].pc = "getUser"
  /\ cacheWriter' = <<"val", i>>
  /\ IF o \in Users
     THEN /\ currentUser' = o
          /\ val' = [val EXCEPT ![i].pc = "done", ![i].res = o]
          /\ AwaiterContinues(i, o)
     ELSE /\ currentUser' = NULL
          /\ val' = [val EXCEPT
                       ![i].pc = IF GetUserFailed(o) THEN "signOutTry"
                                 ELSE "signOutCatch",
                       ![i].so = @ + 1]
          /\ UNCHANGED <<initialValidationComplete, gs>>
  /\ toast' = "none"
  /\ UNCHANGED <<nval, envVars, initVars, user, entries, emailConfirmed,
                 passwordRecoveryOpen, urlMarker, effectsDue, uiVars>>

\* The signOut() awaited inside the try block settles with outcome o.
ValSignOutTryReturns(i, o) ==
  /\ reachable
  /\ val[i].pc = "signOutTry"
  /\ IF o = "throw"
     THEN /\ currentUser' = NULL
          /\ cacheWriter' = <<"val", i>>
          /\ val' = [val EXCEPT ![i].pc = "signOutCatch", ![i].so = @ + 1]
          /\ toast' = "none"
          /\ UNCHANGED <<initialValidationComplete, gs, user, emailConfirmed,
                         urlMarker, passwordRecoveryOpen, entries,
                         effectsDue>>
     ELSE /\ SignOutNotifies(o)
          /\ val' = [val EXCEPT ![i].pc = "done", ![i].res = NULL]
          /\ AwaiterContinues(i, NULL)
  /\ UNCHANGED <<nval, envVars, initVars, uiVars>>

\* The signOut() awaited inside the catch block settles with outcome o.
ValSignOutCatchReturns(i, o) ==
  /\ reachable
  /\ val[i].pc = "signOutCatch"
  /\ SignOutNotifies(o)
  /\ IF o = "throw"
     THEN /\ val' = [val EXCEPT ![i].pc = "rejected", ![i].res = NULL]
          /\ AwaiterContinues(i, "rejected")
     ELSE /\ val' = [val EXCEPT ![i].pc = "done", ![i].res = NULL]
          /\ AwaiterContinues(i, NULL)
  /\ UNCHANGED <<nval, envVars, initVars, uiVars>>

\* ------------------------------------------------ supabaseAuth.getSession
\* `await supabaseClient.auth.getSession()` (the token read that follows a
\* successful validation) settles with outcome o.
GetSessionOutcomes == {"session", "nosession", "error", "throw"}

GsTokensReturns(o) ==
  /\ reachable
  /\ gs.pc = "tokens"
  /\ CASE o = "session" ->
            /\ gs' = [gs EXCEPT !.pc = "resolved", !.res = val[gs.vid].res]
            /\ UNCHANGED <<currentUser, cacheWriter>>
       [] o \in {"nosession", "error"} ->
            /\ gs' = [gs EXCEPT !.pc = "resolved", !.res = NULL]
            /\ currentUser' = NULL
            /\ cacheWriter' = <<"getSession", 0>>
       [] o = "throw" ->
            /\ gs' = [gs EXCEPT !.pc = "rejected"]
            /\ UNCHANGED <<currentUser, cacheWriter>>
  /\ toast' = "none"
  /\ UNCHANGED <<initialValidationComplete, val, nval, envVars, initVars,
                 user, entries, emailConfirmed, passwordRecoveryOpen,
                 urlMarker, effectsDue, uiVars>>

\* ------------------------------------------------------- provider events
\* The provider pushes event e with session user s to both subscribers: the
\* module-level listener, then the App's subscription.
ProviderEvent(e, s) ==
  /\ nEvents < MaxEvents
  /\ nEvents' = nEvents + 1
  /\ currentUser' = ListenerCache(e, s, currentUser)
  /\ cacheWriter' = IF s = NULL THEN <<"listener", nval>> ELSE cacheWriter
  /\ IF ListenerValidates(e, s)
     THEN /\ nval < MaxVal
          /\ nval' = nval + 1
          /\ val' = [val EXCEPT ![nval + 1] = StartedVal("event")]
     ELSE UNCHANGED <<nval, val>>
  /\ AppCallback(e, s)
  /\ UNCHANGED <<initialValidationComplete, gs, reachable, compVars,
                 initVars, uiVars>>

\* The backend stops answering.
BackendLost ==
  /\ reachable
  /\ reachable' = FALSE
  /\ toast' = "none"
  /\ UNCHANGED <<adapterVars, nEvents, compVars, initVars, user, entries,
                 emailConfirmed, passwordRecoveryOpen, urlMarker, effectsDue,
                 uiVars>>

\* ------------------------------------------------- error classification
\* Error messages are sequences of characters.
UpperCase ==
  <<"A", "B", "C", "D", "E", "F", "G", "H", "I", "J", "K", "L", "M",
    "N", "O", "P", "Q", "R", "S", "T", "U", "V", "W", "X", "Y", "Z">>
LowerCase ==
  <<"a", "b", "c", "d", "e", "f", "g", "h", "i", "j", "k", "l", "m",
    "n", "o", "p", "q", "r", "s", "t", "u", "v", "w", "x", "y", "z">>

\* One character of String.prototype.toLowerCase().
LowerChar(c) ==
  IF \E i \in 1..Len(UpperCase) : UpperCase[i] = c
  THEN LowerCase[CHOOSE i \in 1..Len(UpperCase) : UpperCase[i] = c]
  ELSE c

toLowerCase(m) == [i \in 1..Len(m) |-> LowerChar(m[i])]

\* String.prototype.includes().
includes(m, t) ==
  \E i \in 0..(Len(m) - Len(t)) : SubSeq(m, i + 1, i + Len(t)) = t

\* The store's error messages tried: one per marker (in the provider's
\* usual capitalisation), one that only contains `auth` inside another
\* word, one without a marker, the empty message, and an error object
\* without a message.
MsgJwt ==
  <<"J", "W", "T", " ", "e", "x", "p", "i", "r", "e", "d">>
MsgUnauthorized ==
  <<"U", "n", "a", "u", "t", "h", "o", "r", "i", "z", "e", "d">>
MsgToken ==
  <<"I", "n", "v", "a", "l", "i", "d", " ", "T", "o", "k", "e", "n">>
MsgPermission ==
  <<"p", "e", "r", "m", "i", "s", "s", "i", "o", "n", " ", "d", "e",
  "n", "i", "e", "d">>
MsgRls ==
  <<"v", "i", "o", "l", "a", "t", "e", "s", " ", "r", "o", "w", "-",
  "l", "e", "v", "e", "l", " ", "s", "e", "c", "u", "r", "i", "t", "y">>
MsgCoAuthor ==
  <<"c", "o", "-", "a", "u", "t", "h", "o", "r", " ", "m", "i", "s",
  "s", "i", "n", "g">>
MsgNetwork ==
  <<"N", "e", "t", "w", "o", "r", "k", " ", "e", "r", "r", "o", "r">>
NoMessage == <<"undefined">>

ErrorMessages ==
  {MsgJwt, MsgUnauthorized, MsgToken, MsgPermission, MsgRls, MsgCoAuthor,
   MsgNetwork, <<>>, NoMessage}

\* The substrings both classifiers look for.
KwJwt == <<"j", "w", "t">>
KwToken == <<"t", "o", "k", "e", "n">>
KwUnauthorized ==
  <<"u", "n", "a", "u", "t", "h",
    "o", "r", "i", "z", "e", "d">>
KwAuth == <<"a", "u", "t", "h">>
KwPermission == <<"p", "e", "r", "m", "i", "s", "s", "i", "o", "n">>
KwRls ==
  <<"r", "o", "w", "-", "l", "e", "v", "e", "l",
    " ", "s", "e", "c", "u", "r", "i", "t", "y">>

AuthMarkers ==
  {KwJwt, KwToken, KwUnauthorized, KwAuth, KwPermission, KwRls}

\* The claim's notion of an authorization-shaped message.
HasAuthMarker(m) ==
  m # NoMessage /\ \E k \in AuthMarkers : includes(toLowerCase(m), k)

\* isAuthError(error), for a non-null error with message m.
isAuthError(m) ==
  IF m = NoMessage \/ m = <<>> THEN FALSE
  ELSE LET msg == toLowerCase(m) IN
         \/ includes(msg, KwJwt)
         \/ includes(msg, KwToken)
         \/ includes(msg, KwUnauthorized)
         \/ includes(msg, KwAuth)
         \/ includes(msg, KwPermission)
         \/ includes(msg, KwRls)

\* The same test as written inline in loadEntries:
\* `error.message?.toLowerCase() ?? ''`.
loadIsAuthError(m) ==
  LET errorMsg == IF m = NoMessage THEN <<>> ELSE toLowerCase(m) IN
    \/ includes(errorMsg, KwJwt)
    \/ includes(errorMsg, KwToken)
    \/ includes(errorMsg, KwUnauthorized)
    \/ includes(errorMsg, KwAuth)
    \/ includes(errorMsg, KwPermission)
    \/ includes(errorMsg, KwRls)

\* Both classifiers over the messages tried, evaluated once.
AuthErrors == {m \in ErrorMessages : isAuthError(m)}
LoadAuthErrors == {m \in ErrorMessages : loadIsAuthError(m)}

\* --------------------------------------------------- validateAndInitAuth
\* An initialisation that falls back on the adapter's cache when the race
\* yields no session.
InitSetsUser_TrustCache(r) == IF r \in Users THEN r ELSE currentUser

\* What validateAndInitAuth passes to setUser for a race result r: the
\* session's user, or null for a null result (timeout included) or a
\* failure.
InitSetsUser(r) == IF r \in Users THEN r ELSE NULL

\* The 5000 ms timer wins the race: getSession has not settled yet.
TimerFires ==
  /\ initPc = "racing"
  /\ gs.pc \notin {"resolved", "rejected"}
  /\ user' = InitSetsUser(NULL)
  /\ authLoading' = FALSE
  /\ initPc' = "done"
  /\ initOutcome' = "timeout"
  /\ effectsDue' = (effectsDue \/ NewIdentity(InitSetsUser(NULL), user))
  /\ toast' = "none"
  /\ UNCHANGED <<adapterVars, envVars, initSignOuts, entries, emailConfirmed,
                 passwordRecoveryOpen, urlMarker, uiVars>>

\* auth.getSession() wins the race; validateAndInitAuth resumes after the
\* await with its value, or in the catch block with its rejection.
InitResume ==
  /\ initPc = "racing"
  /\ gs.pc \in {"resolved", "rejected"}
  /\ IF gs.pc = "resolved"
     THEN /\ user' = InitSetsUser(gs.res)
          /\ authLoading' = FALSE
          /\ initPc' = "done"
          /\ initOutcome' = IF gs.res = NULL THEN "null" ELSE "session"
          /\ effectsDue' =
               (effectsDue \/ NewIdentity(InitSetsUser(gs.res), user))
          /\ UNCHANGED initSignOuts
     ELSE /\ initPc' = "cleanup"
          /\ initSignOuts' = initSignOuts + 1
          /\ UNCHANGED <<user, authLoading, initOutcome, effectsDue>>
  /\ toast' = "none"
  /\ UNCHANGED <<adapterVars, envVars, entries, emailConfirmed,
                 passwordRecoveryOpen, urlMarker, uiVars>>

\* The cleanup `await auth.signOut()` of the catch block settles (a throw
\* is swallowed by the inner try); then setUser(null) and the finally.
InitCleanupReturns(o) ==
  /\ reachable
  /\ initPc = "cleanup"
  /\ IF o = "ok"
     THEN /\ currentUser' = ListenerCache("SIGNED_OUT", NULL, currentUser)
          /\ cacheWriter' = <<"listener", nval>>
          /\ emailConfirmed' = CbEmailConfirmed("SIGNED_OUT", NULL, urlMarker,
                                                emailConfirmed)
          /\ entries' = CbEntries("SIGNED_OUT", entries)
     ELSE UNCHANGED <<currentUser, cacheWriter, emailConfirmed, entries>>
  /\ user' = InitSetsUser(NULL)
  /\ authLoading' = FALSE
  /\ initPc' = "done"
  /\ initOutcome' = "rejected"
  /\ effectsDue' = (effectsDue \/ user # NULL)
  /\ toast' = "none"
  /\ UNCHANGED <<initialValidationComplete, val, nval, gs, envVars,
                 initSignOuts, passwordRecoveryOpen, urlMarker, uiVars>>

\* ------------------------------------------------------ App, data plane
\* The main view (header, form, entry cards, dialogs) is rendered and can
\* take a user event: React runs the effects that are due before it
\* dispatches one.
Rendered == ~authLoading /\ user # NULL /\ ~loading /\ ~effectsDue

HasFreeOp == \E k \in 1..MaxOps : ops[k].kind = "none"
FreeOp == CHOOSE k \in 1..MaxOps :
            ops[k].kind = "none" /\ \A j \in 1..(k - 1) : ops[j].kind # "none"

\* Rows db.select can return for tracker t.
LoadResults(t) == {<<>>, <<Entry(StoredId, t, 0)>>}

\* The two effects that depend on [user, currentTracker], run after a
\* render in which one of them changed: the first ends the loading state
\* when signed out and provisions a tracker when none is selected, the
\* second starts loadEntries up to its `await db.select(...)`.
RunEffects ==
  /\ effectsDue
  /\ effectsDue' = FALSE
  /\ IF user = NULL
     THEN /\ loading' = FALSE
          /\ UNCHANGED <<ensureInFlight, ops>>
     ELSE IF currentTracker = NULL
     THEN /\ ensureInFlight' = Append(ensureInFlight, user)
          /\ UNCHANGED <<loading, ops>>
     ELSE /\ HasFreeOp
          /\ loading' = TRUE
          /\ ops' = [ops EXCEPT ![FreeOp] =
                       [kind |-> "load", pc |-> "db",
                        tracker |-> currentTracker, entry |-> NoEntry]]
          /\ UNCHANGED ensureInFlight
  /\ toast' = "none"
  /\ UNCHANGED <<adapterVars, envVars, initVars, user, entries,
                 emailConfirmed, passwordRecoveryOpen, urlMarker,
                 currentTracker, nextId, editingEntry, showForm,
                 dialogVars>>

\* Frame of a step of persistence handler k that touches neither the
\* session nor the entry list.
OpFrame ==
  UNCHANGED <<adapterVars, envVars, initVars, user, emailConfirmed,
              passwordRecoveryOpen, urlMarker, effectsDue, currentTracker,
              ensureInFlight, nextId, dialogVars>>

\* db.* returned an error with message m to handler k: an authorization
\* shaped one raises the session toast and calls auth.signOut(), any other
\* raises the handler's own failure toast and ends the handler.
StoreError(k, m, authShaped, failToast) ==
  IF authShaped
  THEN /\ toast' = "session_expired"
       /\ ops' = [ops EXCEPT ![k].pc = "signOut"]
  ELSE /\ toast' = failToast
       /\ ops' = [ops EXCEPT ![k] = NoOp]

\* loadEntries resumes after `await db.select(...)`.
LoadReturns(k, ok, data, m) ==
  /\ reachable
  /\ ops[k].kind = "load" /\ ops[k].pc = "db"
  /\ IF ok
     THEN /\ data \in LoadResults(ops[k].tracker)
          /\ entries' = data
          /\ loading' = FALSE
          /\ toast' = "none"
          /\ ops' = [ops EXCEPT ![k] = NoOp]
     ELSE /\ StoreError(k, m, m \in LoadAuthErrors, "load_failed")
          /\ loading' = IF m \in LoadAuthErrors THEN loading ELSE FALSE
          /\ UNCHANGED entries
  /\ UNCHANGED <<editingEntry, showForm>>
  /\ OpFrame

\* The form is submitted with no entry being edited: handleAddEntry up to
\* its `await db.insert(...)`.
AddSubmit ==
  /\ Rendered /\ showForm /\ editingEntry = NoEntry
  /\ nextId < FirstNewId + MaxAdds
  /\ IF currentTracker = NULL
     THEN /\ toast' = "select_tracker"
          /\ UNCHANGED <<ops, nextId>>
     ELSE /\ HasFreeOp
          /\ toast' = "none"
          /\ nextId' = nextId + 1
          /\ ops' = [ops EXCEPT ![FreeOp] =
                       [kind |-> "add", pc |-> "db",
                        tracker |-> currentTracker,
                        entry |-> Entry(nextId, currentTracker, 0)]]
  /\ UNCHANGED <<adapterVars, envVars, initVars, user, entries,
                 emailConfirmed, passwordRecoveryOpen, urlMarker, effectsDue,
                 loading, currentTracker, ensureInFlight, editingEntry,
                 showForm, dialogVars>>

\* handleAddEntry resumes after `await db.insert(...)`.
AddReturns(k, ok, m) ==
  /\ reachable
  /\ ops[k].kind = "add" /\ ops[k].pc = "db"
  /\ IF ok
     THEN /\ entries' = <<ops[k].entry>> \o entries
          /\ showForm' = FALSE
          /\ toast' = "saved"
          /\ ops' = [ops EXCEPT ![k] = NoOp]
     ELSE /\ StoreError(k, m, m \in AuthErrors, "save_failed")
          /\ UNCHANGED <<entries, showForm>>
  /\ UNCHANGED <<loading, editingEntry>>
  /\ OpFrame

\* handleEditEntry: the edit button of the card of entries[i].
handleEditEntry(i) ==
  /\ Rendered
  /\ i \in 1..Len(entries)
  /\ editingEntry' = entries[i]
  /\ showForm' = TRUE
  /\ toast' = "none"
  /\ UNCHANGED <<adapterVars, envVars, initVars, user, entries,
                 emailConfirmed, passwordRecoveryOpen, urlMarker, effectsDue,
                 loading, currentTracker, ensureInFlight, ops, nextId,
                 dialogVars>>

\* The form is submitted while an entry is being edited: handleUpdateEntry
\* up to its `await db.update(...)`.
UpdateSubmit ==
  /\ Rendered /\ showForm /\ editingEntry # NoEntry
  /\ HasFreeOp
  /\ ops' = [ops EXCEPT ![FreeOp] =
               [kind |-> "update", pc |-> "db", tracker |-> currentTracker,
                entry |-> editingEntry]]
  /\ toast' = "none"
  /\ UNCHANGED <<adapterVars, envVars, initVars, user, entries,
                 emailConfirmed, passwordRecoveryOpen, urlMarker, effectsDue,
                 loading, currentTracker, ensureInFlight, nextId,
                 editingEntry, showForm, dialogVars>>

\* current.map(entry => entry.id === edited.id ? updatedEntry : entry)
ReplaceEntry(es, edited) ==
  [i \in 1..Len(es) |->
     IF es[i].id = edited.id THEN [edited EXCEPT !.rev = 1] ELSE es[i]]

\* handleUpdateEntry resumes after `await db.update(...)`.
UpdateReturns(k, ok, m) ==
  /\ reachable
  /\ ops[k].kind = "update" /\ ops[k].pc = "db"
  /\ IF ok
     THEN /\ entries' = ReplaceEntry(entries, ops[k].entry)
          /\ showForm' = FALSE
          /\ editingEntry' = NoEntry
          /\ toast' = "updated"
          /\ ops' = [ops EXCEPT ![k] = NoOp]
     ELSE /\ StoreError(k, m, m \in AuthErrors, "update_failed")
          /\ UNCHANGED <<entries, showForm, editingEntry>>
  /\ UNCHANGED loading
  /\ OpFrame

\* handleDeleteEntry up to its `await db.delete(...)`: the delete button of
\* the card of entries[i].
DeleteClick(i) ==
  /\ Rendered
  /\ i \in 1..Len(entries)
  /\ HasFreeOp
  /\ ops' = [ops EXCEPT ![FreeOp] =
               [kind |-> "delete", pc |-> "db", tracker |-> currentTracker,
                entry |-> entries[i]]]
  /\ toast' = "none"
  /\ UNCHANGED <<adapterVars, envVars, initVars, user, entries,
                 emailConfirmed, passwordRecoveryOpen, urlMarker, effectsDue,
                 loading, currentTracker, ensureInFlight, nextId,
                 editingEntry, showForm, dialogVars>>

\* current.filter(entry => entry.id !== id)
RemoveEntry(es, id) == SelectSeq(es, LAMBDA e : e.id # id)

\* handleDeleteEntry resumes after `await db.delete(...)`.
DeleteReturns(k, ok, m) ==
  /\ reachable
  /\ ops[k].kind = "delete" /\ ops[k].pc = "db"
  /\ IF ok
     THEN /\ entries' = RemoveEntry(entries, ops[k].entry.id)
          /\ toast' = "deleted"
          /\ ops' = [ops EXCEPT ![k] = NoOp]
     ELSE /\ StoreError(k, m, m \in AuthErrors, "delete_failed")
          /\ UNCHANGED entries
  /\ UNCHANGED <<loading, editingEntry, showForm>>
  /\ OpFrame

\* handleAuthError / loadEntries after `await auth.signOut()` settled with
\* outcome o: a rejection leaves the handler, anything else reaches
\* setUser(null).
ForcedSignOutUser(o, u) == IF o = "throw" THEN u ELSE NULL

\* The auth.signOut() awaited by the forced sign-out of handler k settles
\* with outcome o; a successful call has notified the subscribers first.
ForcedSignOutReturns(k, o) ==
  /\ reachable
  /\ ops[k].pc = "signOut"
  /\ ops' = [ops EXCEPT ![k] = NoOp]
  /\ IF o = "ok"
     THEN /\ currentUser' = ListenerCache("SIGNED_OUT", NULL, currentUser)
          /\ cacheWriter' = <<"listener", nval>>
          /\ emailConfirmed' = CbEmailConfirmed("SIGNED_OUT", NULL, urlMarker,
                                                emailConfirmed)
          /\ entries' = CbEntries("SIGNED_OUT", entries)
     ELSE UNCHANGED <<currentUser, cacheWriter, emailConfirmed, entries>>
  /\ user' = ForcedSignOutUser(o, user)
  /\ effectsDue' = (effectsDue \/ (o # "throw" /\ user # NULL))
  /\ toast' = "none"
  /\ UNCHANGED <<initialValidationComplete, val, nval, gs, envVars, initVars,
                 passwordRecoveryOpen, urlMarker, loading, currentTracker,
                 ensureInFlight, nextId, editingEntry, showForm,
                 dialogVars>>

\* "Log entry" button.
OpenForm ==
  /\ Rendered /\ ~showForm
  /\ showForm' = TRUE
  /\ toast' = "none"
  /\ UNCHANGED <<adapterVars, envVars, initVars, user, entries,
                 emailConfirmed, passwordRecoveryOpen, urlMarker, effectsDue,
                 loading, currentTracker, ensureInFlight, ops, nextId,
                 editingEntry, dialogVars>>

\* The form's onCancel.
CancelForm ==
  /\ Rendered /\ showForm
  /\ showForm' = FALSE
  /\ editingEntry' = NoEntry
  /\ toast' = "none"
  /\ UNCHANGED <<adapterVars, envVars, initVars, user, entries,
                 emailConfirmed, passwordRecoveryOpen, urlMarker, effectsDue,
                 loading, currentTracker, ensureInFlight, ops, nextId,
                 dialogVars>>

\* setCurrentTracker(t): the tracker selector picks t, or the pending
\* ensureDefaultTracker() returned it.
TrackerSet(t) ==
  /\ currentTracker' = t
  /\ effectsDue' = (effectsDue \/ t # currentTracker)

\* The tracker selector's onTrackerChange.
SelectTracker(t) ==
  /\ Rendered
  /\ TrackerSet(t)
  /\ toast' = "none"
  /\ UNCHANGED <<adapterVars, envVars, initVars, user, entries,
                 emailConfirmed, passwordRecoveryOpen, urlMarker, loading,
                 ensureInFlight, ops, nextId, editingEntry,
                 showForm, dialogVars>>

\* `await trackerService.ensureDefaultTracker()` settles, with a tracker
\* (found = TRUE) or without.
EnsureReturns(found, t) ==
  /\ reachable
  /\ \E i \in DOMAIN ensureInFlight :
       ensureInFlight' = SubSeq(ensureInFlight, 1, i - 1) \o
                         SubSeq(ensureInFlight, i + 1, Len(ensureInFlight))
  /\ IF found THEN TrackerSet(t) ELSE UNCHANGED <<currentTracker, effectsDue>>
  /\ toast' = "none"
  /\ UNCHANGED <<adapterVars, envVars, initVars, user, entries,
                 emailConfirmed, passwordRecoveryOpen, urlMarker, loading,
                 ops, nextId, editingEntry, showForm, dialogVars>>

\* ---------------------------------------------- App, sign-out and dialog
\* handleSignOut up to its `await auth.signOut()`.
SignOutClick ==
  /\ Rendered
  /\ signOutPc = "idle"
  /\ signOutPc' = "await"
  /\ toast' = "none"
  /\ UNCHANGED <<adapterVars, envVars, initVars, user, entries,
                 emailConfirmed, passwordRecoveryOpen, urlMarker, effectsDue,
                 dataVars, newPassword, confirmPassword, updatingPassword,
                 pwPc>>

SignOutToast(o) ==
  CASE o = "ok" -> "signed_out"
    [] o = "error" -> "could_not_sign_out"
    [] o = "throw" -> "sign_out_failed"

\* handleSignOut resumes: it only reports, the subscription callback is what
\* changes the session.
HandleSignOutReturns(o) ==
  /\ reachable
  /\ signOutPc = "await"
  /\ signOutPc' = "idle"
  /\ SignOutDelivers(o)
  /\ toast' = SignOutToast(o)
  /\ UNCHANGED <<initialValidationComplete, val, nval, gs, envVars, initVars,
                 dataVars, newPassword, confirmPassword, updatingPassword,
                 pwPc>>

MinPasswordLength == 8
Passwords == {"short", "longenough"}

\* The dialog is shown by the main view only.
DialogShown == Rendered /\ passwordRecoveryOpen

TypeNewPassword(p) ==
  /\ DialogShown
  /\ newPassword' = p
  /\ toast' = "none"
  /\ UNCHANGED <<adapterVars, envVars, initVars, user, entries,
                 emailConfirmed, passwordRecoveryOpen, urlMarker, effectsDue,
                 dataVars, confirmPassword, updatingPassword, pwPc,
                 signOutPc>>

TypeConfirmPassword(p) ==
  /\ DialogShown
  /\ confirmPassword' = p
  /\ toast' = "none"
  /\ UNCHANGED <<adapterVars, envVars, initVars, user, entries,
                 emailConfirmed, passwordRecoveryOpen, urlMarker, effectsDue,
                 dataVars, newPassword, updatingPassword, pwPc,
                 signOutPc>>

\* The checks at the head of handlePasswordUpdate.
PasswordRejected(np, cp) ==
  IF np = "" \/ Len(np) < MinPasswordLength THEN "password_too_short"
  ELSE IF np # cp THEN "passwords_do_not_match"
  ELSE "none"

\* handlePasswordUpdate up to its `await auth.updatePassword(...)`.
PasswordSubmit ==
  /\ DialogShown
  /\ ~updatingPassword
  /\ toast' = PasswordRejected(newPassword, confirmPassword)
  /\ IF PasswordRejected(newPassword, confirmPassword) = "none"
     THEN /\ updatingPassword' = TRUE
          /\ pwPc' = "await"
     ELSE UNCHANGED <<updatingPassword, pwPc>>
  /\ UNCHANGED <<adapterVars, envVars, initVars, user, entries,
                 emailConfirmed, passwordRecoveryOpen, urlMarker, effectsDue,
                 dataVars, newPassword, confirmPassword, signOutPc>>

\* A handler that closes the dialog whatever updatePassword returned.
PasswordUpdateCloses_Always(o, open) == FALSE

\* The dialog after updatePassword settled with outcome o.
PasswordUpdateCloses(o, open) == IF o = "ok" THEN FALSE ELSE open

\* handlePasswordUpdate resumes after `await auth.updatePassword(...)`.
PasswordUpdateReturns(o) ==
  /\ reachable
  /\ pwPc = "await"
  /\ pwPc' = "idle"
  /\ updatingPassword' = (o = "throw")
  /\ passwordRecoveryOpen' = PasswordUpdateCloses(o, passwordRecoveryOpen)
  /\ newPassword' = IF o = "ok" THEN "" ELSE newPassword
  /\ confirmPassword' = IF o = "ok" THEN "" ELSE confirmPassword
  /\ toast' = CASE o = "ok" -> "password_updated"
                [] o = "error" -> "password_update_failed"
                [] o = "throw" -> "none"
  /\ UNCHANGED <<adapterVars, envVars, initVars, user, entries,
                 emailConfirmed, urlMarker, effectsDue, dataVars, signOutPc>>

\* The dialog's Cancel button, or its onOpenChange(false) (Escape, the
\* close button, a click outside).
DismissRecovery ==
  /\ DialogShown
  /\ passwordRecoveryOpen' = FALSE
  /\ toast' = "none"
  /\ UNCHANGED <<adapterVars, envVars, initVars, user, entries,
                 emailConfirmed, urlMarker, effectsDue, dataVars, dialogVars>>

\* ------------------------------------ tracker configuration (part_004)
\* A JavaScript object is a function from its property names to their
\* values.  Reading a property that the object does not have yields
\* undefined, so a property holding undefined and a property that is absent
\* are the same thing here: the name is not in the DOMAIN.
undefined == "undefined"
Prop(obj, name) == IF name \in DOMAIN obj THEN obj[name] ELSE undefined

\* An optional object argument: null, undefined, or an object.
JsNull == [kind |-> NULL, object |-> <<>>]
JsUndefined == [kind |-> undefined, object |-> <<>>]
JsObject(obj) == [kind |-> "object", object |-> obj]
Truthy_Always(arg) == TRUE

Truthy(arg) == arg.kind = "object"

\* The closures returned by the four intensity helpers, as the helper that
\* made them and the array they captured.
createIntensityLabelFn(labels) ==
  [maker |-> "createIntensityLabelFn", captured |-> labels]

createIntensityColorFn(colors) ==
  [maker |-> "createIntensityColorFn", captured |-> colors]

\* Bodies of the closures (arrays are 1-based here, 0-based in the source).
createdLabel_InScaleOnly(labels, value) ==
  IF value < 1 \/ value > 10 THEN undefined
  ELSE IF value <= 2 THEN labels[1]
  ELSE IF value <= 4 THEN labels[2]
  ELSE IF value <= 6 THEN labels[3]
  ELSE IF value <= 8 THEN labels[4]
  ELSE labels[5]

createdLabel(labels, value) ==
  IF value <= 2 THEN labels[1]
  ELSE IF value <= 4 THEN labels[2]
  ELSE IF value <= 6 THEN labels[3]
  ELSE IF value <= 8 THEN labels[4]
  ELSE labels[5]

createdColor(colors, value) ==
  IF value <= 2 THEN colors[1]
  ELSE IF value <= 4 THEN colors[2]
  ELSE IF value <= 6 THEN colors[3]
  ELSE IF value <= 8 THEN colors[4]
  ELSE colors[5]

HIGH_BAD_COLORS == <<"#22c55e", "#84cc16", "#eab308", "#f97316", "#ef4444">>
LOW_BAD_COLORS == <<"#ef4444", "#f97316", "#eab308", "#84cc16", "#22c55e">>

deleteConfirm(entryType) ==
  IF entryType \notin {undefined, ""}
  THEN "Are you sure you want to delete this " \o entryType
       \o " entry? This action cannot be undone."
  ELSE "Are you sure you want to delete this entry? This action cannot be undone."

\* part_004:99-140
chronicPainConfig ==
  [intensityLabel |-> "Pain Intensity",
   intensityMinLabel |-> "1 - Minimal",
   intensityMaxLabel |-> "10 - Extreme",
   locationLabel |-> "Location(s)",
   locationPlaceholder |-> "Where is the pain?",
   triggersLabel |-> "Possible Triggers",
   notesLabel |-> "Notes",
   notesPlaceholder |->
      "Describe your pain, what you were doing, how you're feeling...",
   addButtonLabel |-> "Log Pain Entry",
   formTitle |-> "Log Pain Entry",
   emptyStateTitle |-> "Welcome to Your Pain Diary",
   emptyStateDescription |->
      "Start tracking your pain journey by logging your first entry. Understanding your patterns can help you and your healthcare provider make informed decisions.",
   emptyStateBullets |-> <<
      "Track pain intensity, location, and triggers",
      "Identify patterns over time", "Share your history with doctors">>,
   entryTitle |-> "Pain Entry Details",
   deleteConfirmMessage |-> deleteConfirm("pain"),
   locations |-> <<
      [value |-> "head", label |-> "Head"],
      [value |-> "neck", label |-> "Neck"],
      [value |-> "shoulders", label |-> "Shoulders"],
      [value |-> "upper-back", label |-> "Upper Back"],
      [value |-> "lower-back", label |-> "Lower Back"],
      [value |-> "chest", label |-> "Chest"],
      [value |-> "abdomen", label |-> "Abdomen"],
      [value |-> "hips", label |-> "Hips"],
      [value |-> "arms", label |-> "Arms"],
      [value |-> "hands", label |-> "Hands"],
      [value |-> "legs", label |-> "Legs"],
      [value |-> "knees", label |-> "Knees"],
      [value |-> "feet", label |-> "Feet"]>>,
   triggers |-> <<
      "Stress", "Weather", "Physical Activity", "Sleep Issues", "Diet",
      "Medication Change", "Prolonged Sitting", "Cold", "Heat">>,
   getIntensityLabel |->
      createIntensityLabelFn(<<"Minimal", "Mild", "Moderate", "Severe", "Extreme">>),
   getIntensityColor |-> createIntensityColorFn(HIGH_BAD_COLORS)]

\* part_004:143-180
moodConfig ==
  [intensityLabel |-> "Mood Level",
   intensityMinLabel |-> "1 - Very Low",
   intensityMaxLabel |-> "10 - Excellent",
   locationLabel |-> "Category",
   locationPlaceholder |-> "What best describes your mood?",
   triggersLabel |-> "Contributing Factors",
   notesLabel |-> "Reflections",
   notesPlaceholder |-> "How are you feeling? What's on your mind?",
   addButtonLabel |-> "Log Mood",
   formTitle |-> "Log Mood Entry",
   emptyStateTitle |-> "Welcome to Your Mood Tracker",
   emptyStateDescription |->
      "Start tracking your emotional wellbeing by logging your first entry. Understanding your mood patterns can help you identify what affects your mental health.",
   emptyStateBullets |-> <<
      "Track mood levels and emotional states",
      "Identify triggers and patterns", "Build self-awareness over time">>,
   entryTitle |-> "Mood Entry Details",
   deleteConfirmMessage |-> deleteConfirm("mood"),
   locations |-> <<
      [value |-> "anxiety", label |-> "Anxiety"],
      [value |-> "depression", label |-> "Depression"],
      [value |-> "stress", label |-> "Stress"],
      [value |-> "calm", label |-> "Calm"],
      [value |-> "happy", label |-> "Happy"],
      [value |-> "neutral", label |-> "Neutral"],
      [value |-> "irritable", label |-> "Irritable"],
      [value |-> "hopeful", label |-> "Hopeful"],
      [value |-> "overwhelmed", label |-> "Overwhelmed"]>>,
   triggers |-> <<
      "Work", "Relationships", "Sleep", "Exercise", "Social Media",
      "Isolation", "Therapy", "Meditation", "Weather", "News">>,
   getIntensityLabel |->
      createIntensityLabelFn(<<"Very Low", "Low", "Okay", "Good", "Excellent">>),
   getIntensityColor |-> createIntensityColorFn(LOW_BAD_COLORS)]

\* part_004:183-219
sleepConfig ==
  [intensityLabel |-> "Sleep Quality",
   intensityMinLabel |-> "1 - Terrible",
   intensityMaxLabel |-> "10 - Perfect",
   locationLabel |-> "Sleep Type",
   locationPlaceholder |-> "How was your sleep?",
   triggersLabel |-> "Sleep Factors",
   notesLabel |-> "Notes",
   notesPlaceholder |->
      "Any dreams, interruptions, or things affecting your sleep?",
   addButtonLabel |-> "Log Sleep",
   formTitle |-> "Log Sleep Entry",
   emptyStateTitle |-> "Welcome to Your Sleep Tracker",
   emptyStateDescription |->
      "Start tracking your sleep quality by logging your first entry. Understanding your sleep patterns can help improve your rest and overall health.",
   emptyStateBullets |-> <<
      "Track sleep quality and duration",
      "Identify factors affecting your sleep", "Improve your sleep hygiene">>,
   entryTitle |-> "Sleep Entry Details",
   deleteConfirmMessage |-> deleteConfirm("sleep"),
   locations |-> <<
      [value |-> "insomnia", label |-> "Insomnia"],
      [value |-> "restful", label |-> "Restful"],
      [value |-> "disturbed", label |-> "Disturbed"],
      [value |-> "oversleep", label |-> "Oversleep"],
      [value |-> "nap", label |-> "Nap"],
      [value |-> "nightmare", label |-> "Nightmare"],
      [value |-> "light-sleep", label |-> "Light Sleep"],
      [value |-> "deep-sleep", label |-> "Deep Sleep"]>>,
   triggers |-> <<
      "Caffeine", "Screen Time", "Stress", "Exercise", "Late Meal",
      "Alcohol", "Medication", "Noise", "Temperature", "Anxiety">>,
   getIntensityLabel |->
      createIntensityLabelFn(<<"Terrible", "Poor", "Fair", "Good", "Perfect">>),
   getIntensityColor |-> createIntensityColorFn(LOW_BAD_COLORS)]

\* part_004:222-259
menstrualConfig ==
  [intensityLabel |-> "Symptom Intensity",
   intensityMinLabel |-> "1 - Minimal",
   intensityMaxLabel |-> "10 - Severe",
   locationLabel |-> "Cycle Phase / Symptoms",
   locationPlaceholder |-> "What are you experiencing?",
   triggersLabel |-> "Related Factors",
   notesLabel |-> "Notes",
   notesPlaceholder |-> "How are you feeling? Any patterns you notice?",
   addButtonLabel |-> "Log Cycle Entry",
   formTitle |-> "Log Cycle Entry",
   emptyStateTitle |-> "Welcome to Your Cycle Tracker",
   emptyStateDescription |->
      "Start tracking your menstrual cycle by logging your first entry. Understanding your patterns can help you plan ahead and identify health changes.",
   emptyStateBullets |-> <<
      "Track cycle phases and symptoms", "Predict upcoming periods",
      "Share patterns with healthcare providers">>,
   entryTitle |-> "Cycle Entry Details",
   deleteConfirmMessage |-> deleteConfirm("cycle"),
   locations |-> <<
      [value |-> "period", label |-> "Period"],
      [value |-> "ovulation", label |-> "Ovulation"],
      [value |-> "pms", label |-> "PMS"],
      [value |-> "cramps", label |-> "Cramps"],
      [value |-> "bloating", label |-> "Bloating"],
      [value |-> "headache", label |-> "Headache"],
      [value |-> "fatigue", label |-> "Fatigue"],
      [value |-> "mood-swings", label |-> "Mood Swings"],
      [value |-> "spotting", label |-> "Spotting"]>>,
   triggers |-> <<
      "Stress", "Diet", "Exercise", "Sleep", "Hydration", "Medication",
      "Hormones", "Travel", "Weather">>,
   getIntensityLabel |->
      createIntensityLabelFn(<<"Minimal", "Mild", "Moderate", "Severe", "Extreme">>),
   getIntensityColor |-> createIntensityColorFn(HIGH_BAD_COLORS)]

\* part_004:262-298
medicationConfig ==
  [intensityLabel |-> "Effectiveness",
   intensityMinLabel |-> "1 - No Effect",
   intensityMaxLabel |-> "10 - Very Effective",
   locationLabel |-> "Medication Type",
   locationPlaceholder |-> "What type of medication?",
   triggersLabel |-> "Side Effects",
   notesLabel |-> "Notes",
   notesPlaceholder |-> "Dosage, timing, how you felt after taking it...",
   addButtonLabel |-> "Log Medication",
   formTitle |-> "Log Medication Entry",
   emptyStateTitle |-> "Welcome to Your Medication Tracker",
   emptyStateDescription |->
      "Start tracking your medications by logging your first entry. Keeping a record helps you understand effectiveness and side effects.",
   emptyStateBullets |-> <<
      "Track medication effectiveness", "Monitor side effects",
      "Keep records for doctor visits">>,
   entryTitle |-> "Medication Entry Details",
   deleteConfirmMessage |-> deleteConfirm("medication"),
   locations |-> <<
      [value |-> "prescription", label |-> "Prescription"],
      [value |-> "otc", label |-> "Over-the-Counter"],
      [value |-> "supplement", label |-> "Supplement"],
      [value |-> "vitamin", label |-> "Vitamin"],
      [value |-> "painkiller", label |-> "Painkiller"],
      [value |-> "antibiotic", label |-> "Antibiotic"],
      [value |-> "antidepressant", label |-> "Antidepressant"],
      [value |-> "other", label |-> "Other"]>>,
   triggers |-> <<
      "Nausea", "Drowsiness", "Headache", "Dizziness", "Appetite Change",
      "Mood Change", "Skin Reaction", "None", "Other">>,
   getIntensityLabel |->
      createIntensityLabelFn(<<"No Effect", "Slight", "Moderate", "Good", "Very Effective">>),
   getIntensityColor |-> createIntensityColorFn(LOW_BAD_COLORS)]

\* part_004:301-339
exerciseConfig ==
  [intensityLabel |-> "Workout Intensity",
   intensityMinLabel |-> "1 - Very Light",
   intensityMaxLabel |-> "10 - Maximum",
   locationLabel |-> "Activity Type",
   locationPlaceholder |-> "What did you do?",
   triggersLabel |-> "How You Felt",
   notesLabel |-> "Notes",
   notesPlaceholder |->
      "Duration, distance, reps, how you felt during/after...",
   addButtonLabel |-> "Log Exercise",
   formTitle |-> "Log Exercise Entry",
   emptyStateTitle |-> "Welcome to Your Exercise Tracker",
   emptyStateDescription |->
      "Start tracking your workouts by logging your first entry. Monitoring your exercise helps you stay consistent and track progress.",
   emptyStateBullets |-> <<
      "Track workout intensity and type", "Monitor progress over time",
      "Build healthy habits">>,
   entryTitle |-> "Exercise Entry Details",
   deleteConfirmMessage |-> deleteConfirm("exercise"),
   locations |-> <<
      [value |-> "cardio", label |-> "Cardio"],
      [value |-> "strength", label |-> "Strength"],
      [value |-> "flexibility", label |-> "Flexibility"],
      [value |-> "walking", label |-> "Walking"],
      [value |-> "running", label |-> "Running"],
      [value |-> "cycling", label |-> "Cycling"],
      [value |-> "swimming", label |-> "Swimming"],
      [value |-> "yoga", label |-> "Yoga"],
      [value |-> "sports", label |-> "Sports"],
      [value |-> "hiit", label |-> "HIIT"]>>,
   triggers |-> <<
      "Energized", "Tired", "Sore", "Accomplished", "Struggled",
      "Personal Best", "Recovery Day", "Outdoor", "Gym", "Home">>,
   getIntensityLabel |->
      createIntensityLabelFn(<<"Very Light", "Light", "Moderate", "Hard", "Maximum">>),
   getIntensityColor |-> createIntensityColorFn(HIGH_BAD_COLORS)]

\* part_004:342-371
defaultConfig ==
  [intensityLabel |-> "Level",
   intensityMinLabel |-> "1 - Low",
   intensityMaxLabel |-> "10 - High",
   locationLabel |-> "Category",
   locationPlaceholder |-> "Select a category",
   triggersLabel |-> "Tags",
   notesLabel |-> "Notes",
   notesPlaceholder |-> "Add any notes or details...",
   addButtonLabel |-> "Log Entry",
   formTitle |-> "Log Entry",
   emptyStateTitle |-> "Welcome to Your Tracker",
   emptyStateDescription |->
      "Start tracking by logging your first entry. Understanding your patterns over time can provide valuable insights.",
   emptyStateBullets |-> <<
      "Track levels and patterns", "Identify trends over time",
      "Keep a personal record">>,
   entryTitle |-> "Entry Details",
   deleteConfirmMessage |-> deleteConfirm(undefined),
   locations |-> <<
      [value |-> "general", label |-> "General"],
      [value |-> "positive", label |-> "Positive"],
      [value |-> "negative", label |-> "Negative"],
      [value |-> "neutral", label |-> "Neutral"]>>,
   triggers |-> <<"Note", "Important", "Follow-up", "Recurring">>,
   getIntensityLabel |->
      createIntensityLabelFn(<<"Very Low", "Low", "Medium", "High", "Very High">>),
   getIntensityColor |->
      createIntensityColorFn(<<"#6366f1", "#8b5cf6", "#a855f7", "#c026d3", "#db2777">>)]

configMap ==
  [chronic_pain |-> chronicPainConfig,
   mood |-> moodConfig,
   sleep |-> sleepConfig,
   menstrual_cycle |-> menstrualConfig,
   medication |-> medicationConfig,
   exercise |-> exerciseConfig]

\* configMap is a plain object literal, so configMap[key] also finds the
\* members it inherits from Object.prototype.  None of them is null or
\* undefined and none has a TrackerConfig property.
ObjectPrototypeKeys ==
  {"constructor", "toString", "toLocaleString", "valueOf", "hasOwnProperty",
   "isPrototypeOf", "propertyIsEnumerable", "__proto__"}
InheritedMember == [name \in {} |-> undefined]
ConfigMapHas(key) == key \in DOMAIN configMap \cup ObjectPrototypeKeys
ConfigMapGet(key) ==
  IF key \in DOMAIN configMap THEN configMap[key] ELSE InheritedMember

getIntensityLabels(scale) ==
  IF scale = "high_bad"
  THEN <<"Normal", "Mild", "Moderate", "Elevated", "High">>
  ELSE IF scale = "low_bad"
  THEN <<"Very Low", "Low", "Moderate", "Good", "Excellent">>
  ELSE <<"Very Light", "Light", "Moderate", "Intense", "Maximum">>

buildIntensityLabelFn(scale) ==
  [maker |-> "buildIntensityLabelFn", captured |-> getIntensityLabels(scale)]

builtLabel(labels, value) ==
  IF value <= 2 THEN labels[1]
  ELSE IF value <= 4 THEN labels[2]
  ELSE IF value <= 6 THEN labels[3]
  ELSE IF value <= 8 THEN labels[4]
  ELSE labels[5]

getIntensityColors(scale) ==
  IF scale = "high_bad"
  THEN <<"#22c55e", "#84cc16", "#eab308", "#f97316", "#ef4444">>
  ELSE IF scale = "low_bad"
  THEN <<"#ef4444", "#f97316", "#eab308", "#84cc16", "#22c55e">>
  ELSE <<"#6366f1", "#8b5cf6", "#a855f7", "#c026d3", "#db2777">>

getColorFromPalette_Strict(colors, value) ==
  IF value < 2 THEN colors[1]
  ELSE IF value < 4 THEN colors[2]
  ELSE IF value < 6 THEN colors[3]
  ELSE IF value < 8 THEN colors[4]
  ELSE colors[5]

getColorFromPalette(colors, value) ==
  IF value <= 2 THEN colors[1]
  ELSE IF value <= 4 THEN colors[2]
  ELSE IF value <= 6 THEN colors[3]
  ELSE IF value <= 8 THEN colors[4]
  ELSE colors[5]

buildIntensityColorFn(scale) ==
  [maker |-> "buildIntensityColorFn", captured |-> getIntensityColors(scale)]

\* Calling one of the closures above.
CallIntensityFn(fn, value) ==
  CASE fn.maker = "createIntensityLabelFn" -> createdLabel(fn.captured, value)
    [] fn.maker = "createIntensityColorFn" -> createdColor(fn.captured, value)
    [] fn.maker = "buildIntensityLabelFn" -> builtLabel(fn.captured, value)
    [] fn.maker = "buildIntensityColorFn" ->
         getColorFromPalette(fn.captured, value)

\* The properties buildConfigFromGenerated reads from the generated config
\* and stores under the same name.
CopiedFields ==
  {"intensityLabel", "intensityMinLabel", "intensityMaxLabel",
   "locationLabel", "locationPlaceholder", "triggersLabel", "notesLabel",
   "notesPlaceholder", "addButtonLabel", "formTitle", "emptyStateTitle",
   "emptyStateDescription", "emptyStateBullets", "entryTitle",
   "deleteConfirmMessage", "locations", "triggers"}

buildConfigFromGenerated(generated) ==
  [name \in CopiedFields \cap DOMAIN generated |-> generated[name]]
    @@ [getIntensityLabel |->
          buildIntensityLabelFn(Prop(generated, "intensityScale")),
        getIntensityColor |->
          buildIntensityColorFn(Prop(generated, "intensityScale"))]

getTrackerConfig_PresetFirst(presetId, generatedConfig) ==
  IF presetId \in DOMAIN configMap THEN configMap[presetId]
  ELSE IF Truthy(generatedConfig)
  THEN buildConfigFromGenerated(generatedConfig.object)
  ELSE defaultConfig

getTrackerConfig(presetId, generatedConfig) ==
  IF Truthy(generatedConfig)
  THEN buildConfigFromGenerated(generatedConfig.object)
  ELSE IF presetId \in {NULL, undefined, ""} THEN defaultConfig
  ELSE IF ConfigMapHas(presetId) THEN ConfigMapGet(presetId)
  ELSE defaultConfig

\* A generated config as the generation service returns it (the JSON
\* structure requested in part_008:319-340), for intensityScale tag scale.
\* The properties shared with TrackerConfig come first, in its order.
GeneratedSample(scale) ==
  [intensityLabel |-> "Blood Pressure Level",
   intensityMinLabel |-> "1 - Low/Normal",
   intensityMaxLabel |-> "10 - Very High",
   locationLabel |-> "Reading Type",
   locationPlaceholder |-> "Select a reading type",
   triggersLabel |-> "Contributing Factors",
   notesLabel |-> "Notes",
   notesPlaceholder |-> "Anything unusual about this reading?",
   addButtonLabel |-> "Log Reading",
   formTitle |-> "Log Blood Pressure",
   emptyStateTitle |-> "Welcome to Your Blood Pressure Tracker",
   emptyStateDescription |-> "Regular readings show how your pressure changes.",
   emptyStateBullets |-> <<"Track readings", "Spot trends", "Share with your doctor">>,
   entryTitle |-> "Blood Pressure Entry",
   deleteConfirmMessage |-> "Delete this reading?",
   locations |-> <<[value |-> "at-rest", label |-> "At Rest"],
                   [value |-> "after-exercise", label |-> "After Exercise"]>>,
   triggers |-> <<"Caffeine", "Stress", "Salt">>,
   intensityScale |-> scale,
   suggestedHashtags |-> <<"bloodpressure", "hearthealth">>]

GeneratedFields == DOMAIN GeneratedSample("neutral")
ArrayFields ==
  {"emptyStateBullets", "locations", "triggers", "suggestedHashtags"}
StringFields == CopiedFields \ ArrayFields
IntensityScales == {"low_bad", "high_bad", "neutral"}

\* The members of TrackerConfig that are not optional.
MandatoryFields == CopiedFields \cup {"getIntensityLabel", "getIntensityColor"}

\* The generated_config argument of one call: null, undefined, a complete
\* object, an object with one string property empty, or an object with one
\* property absent.
GeneratedInput(shape, scale, field) ==
  CASE shape = "null" -> JsNull
    [] shape = "undefined" -> JsUndefined
    [] shape = "complete" -> JsObject(GeneratedSample(scale))
    [] shape = "empty_field" ->
         JsObject([GeneratedSample(scale) EXCEPT ![field] = ""])
    [] shape = "missing_field" ->
         JsObject([name \in GeneratedFields \ {field} |->
                     GeneratedSample(scale)[name]])
\* The combinations that give distinct arguments.
GeneratedChoices ==
  ({"null", "undefined"} \X {"neutral"} \X {"intensityLabel"})
    \cup ({"complete"} \X (IntensityScales \cup {"sideways"})
            \X {"intensityLabel"})
    \cup ({"empty_field"} \X IntensityScales \X StringFields)
    \cup ({"missing_field"} \X IntensityScales \X GeneratedFields)

KnownPresetIds == DOMAIN configMap
PresetIdInputs ==
  KnownPresetIds \cup {NULL, undefined, "blood_pressure", "constructor"}

MinIntensity == 1
MaxIntensity == 10
\* (value: number): the scale's values and integers on either side of it
IntensityInputs == (MinIntensity - OutOfRange)..(MaxIntensity + OutOfRange)

\* A component resolves the configuration of the tracker it shows
\* (PainEntryCard, App): one call of getTrackerConfig.
ResolveConfig(presetId, generatedConfig) ==
  /\ cfgPc = "idle"
  /\ cfgPc' = "resolved"
  /\ cfgPresetId' = presetId
  /\ cfgGenerated' = generatedConfig
  /\ cfgConfig' = getTrackerConfig(presetId, generatedConfig)
  /\ UNCHANGED <<cfgValue, cfgLabel, cfgColor>>
  /\ UNCHANGED <<adapterVars, reachable, nEvents, logVars, selVars, appVars,
                 uiVars, provVars>>

\* The component renders an entry of intensity value with the resolved
\* configuration.  Calling a function the configuration does not have is a
\* TypeError.
RenderIntensity(value) ==
  /\ cfgPc = "resolved"
  /\ cfgPc' = "rendered"
  /\ cfgValue' = value
  /\ cfgLabel' = IF "getIntensityLabel" \in DOMAIN cfgConfig
                 THEN CallIntensityFn(cfgConfig.getIntensityLabel, value)
                 ELSE "TypeError"
  /\ cfgColor' = IF "getIntensityColor" \in DOMAIN cfgConfig
                 THEN CallIntensityFn(cfgConfig.getIntensityColor, value)
                 ELSE "TypeError"
  /\ UNCHANGED <<cfgPresetId, cfgGenerated, cfgConfig>>
  /\ UNCHANGED <<adapterVars, reachable, nEvents, logVars, selVars, appVars,
                 uiVars, provVars>>

\* ----------------------------------- TrackerSelector (TrackerSelector.tsx)
\* The selector mounted by a parent that passes currentTracker and
\* onTrackerChange = setCurrentTracker (part_002:847-850).  Trackers are
\* identified by their ids; the service creates them with increasing ids
\* and lists them in that order.
NoTracker == 0
InitialTrackers == {1, 2}
\* the tracker flagged is_default: any one of the user's trackers, here not
\* the first of the list, so that find(t => t.is_default) and [0] differ
DefaultId == 2

ListOf(ids) ==
  CHOOSE s \in [1..Cardinality(ids) -> ids] :
    \A i, j \in 1..Cardinality(ids) : i < j => s[i] < s[j]

\* list[0]
DefaultOrFirst_First(list) == list[1]

\* list.find(t => t.is_default) || list[0]
DefaultOrFirst(list) ==
  IF \E i \in 1..Len(list) : list[i] = DefaultId THEN DefaultId ELSE list[1]

Without(list, id) == SelectSeq(list, LAMBDA t : t # id)

NoDelete ==
  [currentTracker |-> NoTracker, trackerToDelete |-> NoTracker,
   pc |-> "idle", trackers |-> <<>>]

\* The parent's setCurrentTracker; loadTrackers depends on currentTracker,
\* so the load effect is due again when it changes.
onTrackerChange(t) ==
  /\ selCurrent' = t
  /\ selEffectDue' = (selEffectDue \/ t # selCurrent)

\* The component renders a placeholder while loading; React runs pending
\* effects before it dispatches a user event.
SelectorShown == ~selLoading /\ ~selEffectDue
NoDialogOpen == ~deleteDialogOpen /\ createPc = "closed"

SelFrame == UNCHANGED <<adapterVars, reachable, nEvents, logVars, cfgVars,
                        appVars, uiVars, provVars>>

\* useEffect(() => { loadTrackers() }): setLoading(true), then the call.
RunLoadEffect ==
  /\ selEffectDue
  /\ Len(selLoads) < MaxLoads
  /\ selEffectDue' = FALSE
  /\ selLoading' = TRUE
  /\ selLoads' = Append(selLoads, selCurrent)
  /\ UNCHANGED <<selServer, selDeleted, selTrackers, selCurrent,
                 trackerToDelete, deleteDialogOpen, deleting, delCall,
                 createPc, selCreated, createVars>>
  /\ SelFrame

\* The race of getTrackers() against the 5 s timer settles for load i,
\* with the list (ok) or with an error or the timeout.
LoadTrackersReturns(i, ok) ==
  /\ i \in 1..Len(selLoads)
  /\ selLoads' = [j \in 1..(Len(selLoads) - 1) |->
                    IF j < i THEN selLoads[j] ELSE selLoads[j + 1]]
  /\ selLoading' = FALSE
  /\ IF ok
     THEN /\ selTrackers' = ListOf(selServer)
          /\ IF selLoads[i] = NoTracker /\ selServer # {}
             THEN onTrackerChange(DefaultOrFirst(ListOf(selServer)))
             ELSE UNCHANGED <<selCurrent, selEffectDue>>
     ELSE UNCHANGED <<selTrackers, selCurrent, selEffectDue>>
  /\ UNCHANGED <<selServer, selDeleted, trackerToDelete, deleteDialogOpen,
                 deleting, delCall, createPc, selCreated, createVars>>
  /\ SelFrame

\* A click on the dropdown item of tracker t.
SelectItem(t) ==
  /\ SelectorShown
  /\ NoDialogOpen
  /\ \E i \in 1..Len(selTrackers) : selTrackers[i] = t
  /\ onTrackerChange(t)
  /\ UNCHANGED <<selServer, selDeleted, selTrackers, selLoading, selLoads,
                 trackerToDelete, deleteDialogOpen, deleting, delCall,
                 createPc, selCreated, createVars>>
  /\ SelFrame

\* "Delete Tracker" > t: offered only while more than one tracker is
\* listed.
OpenDeleteDialog(t) ==
  /\ SelectorShown
  /\ NoDialogOpen
  /\ Len(selTrackers) > 1
  /\ \E i \in 1..Len(selTrackers) : selTrackers[i] = t
  /\ trackerToDelete' = t
  /\ deleteDialogOpen' = TRUE
  /\ UNCHANGED <<selServer, selDeleted, selTrackers, selCurrent, selLoading,
                 selEffectDue, selLoads, deleting, delCall, createPc,
                 selCreated, createVars>>
  /\ SelFrame

\* The confirmation dialog's onOpenChange(false): the dialog closes and
\* trackerToDelete is cleared.  Only the Cancel button is disabled while a
\* deletion is in flight; this handler does not look at deleting.
CloseDeleteDialog ==
  /\ SelectorShown
  /\ deleteDialogOpen
  /\ deleteDialogOpen' = FALSE
  /\ trackerToDelete' = NoTracker
  /\ UNCHANGED <<selServer, selDeleted, selTrackers, selCurrent, selLoading,
                 selEffectDue, selLoads, deleting, delCall, createPc,
                 selCreated, createVars>>
  /\ SelFrame

\* "Yes, Delete Forever": handleDeleteTracker up to its await.  The
\* function keeps the currentTracker, trackers and trackerToDelete of the
\* render it was created in.
handleDeleteTracker ==
  /\ SelectorShown
  /\ deleteDialogOpen
  /\ ~deleting
  /\ trackerToDelete # NoTracker
  /\ deleting' = TRUE
  /\ delCall' = [currentTracker |-> selCurrent,
                 trackerToDelete |-> trackerToDelete,
                 pc |-> "service", trackers |-> selTrackers]
  /\ UNCHANGED <<selServer, selDeleted, selTrackers, selCurrent, selLoading,
                 selEffectDue, selLoads, trackerToDelete, deleteDialogOpen,
                 createPc, selCreated, createVars>>
  /\ SelFrame

\* if (currentTracker?.id === trackerToDelete.id)
DeleteSwitches(call) == call.currentTracker = call.trackerToDelete

\* `await trackerService.deleteTracker(id)` settles.
DeleteTrackerReturns(ok) ==
  /\ delCall.pc = "service"
  /\ delCall' = NoDelete
  /\ IF ok
     THEN /\ selServer' = selServer \ {delCall.trackerToDelete}
          /\ selDeleted' = selDeleted \cup {delCall.trackerToDelete}
          /\ selTrackers' = Without(selTrackers, delCall.trackerToDelete)
          /\ IF /\ DeleteSwitches(delCall)
                /\ Without(delCall.trackers, delCall.trackerToDelete) # <<>>
             THEN onTrackerChange(DefaultOrFirst(
                    Without(delCall.trackers, delCall.trackerToDelete)))
             ELSE UNCHANGED <<selCurrent, selEffectDue>>
     ELSE UNCHANGED <<selServer, selDeleted, selTrackers, selCurrent,
                      selEffectDue>>
  /\ deleting' = FALSE
  /\ deleteDialogOpen' = FALSE
  /\ trackerToDelete' = NoTracker
  /\ UNCHANGED <<selLoading, selLoads, createPc, selCreated, createVars>>
  /\ SelFrame

\* "New Tracker".
OpenCreateDialog ==
  /\ SelectorShown
  /\ NoDialogOpen
  /\ createPc' = "open"
  /\ UNCHANGED <<selServer, selDeleted, selTrackers, selCurrent, selLoading,
                 selEffectDue, selLoads, trackerToDelete, deleteDialogOpen,
                 deleting, delCall, selCreated, createVars>>
  /\ SelFrame

\* The create dialog's onOpenChange(false) and the Cancel button:
\* resetCreateDialog.  Neither looks at creating.
resetCreateDialog ==
  /\ SelectorShown
  /\ createPc = "open"
  /\ createPc' = "closed"
  /\ generationStep' = "input"
  /\ UNCHANGED <<selServer, selDeleted, selTrackers, selCurrent, selLoading,
                 selEffectDue, selLoads, trackerToDelete, deleteDialogOpen,
                 deleting, delCall, selCreated, creating, createCall>>
  /\ SelFrame

\* No create handler is at an await.
NoCreateCall == [pc |-> "idle", handler |-> "none"]

\* What a create handler leaves alone when it starts or resumes.
CreateFrame ==
  /\ UNCHANGED <<selDeleted, selLoading, selLoads, trackerToDelete,
                 deleteDialogOpen, deleting, delCall>>
  /\ SelFrame

\* handleCreateTracker up to `await generateTrackerConfig(...)`: "Create with
\* AI" and Enter in step 'input', "Try Again" in step 'error'; all are
\* disabled while creating.
handleCreateTracker ==
  /\ SelectorShown
  /\ createPc = "open"
  /\ ~creating
  /\ generationStep \in {"input", "error"}
  /\ selCreated < MaxCreates
  /\ creating' = TRUE
  /\ generationStep' = "generating"
  /\ createCall' = [pc |-> "generate", handler |-> "handleCreateTracker"]
  /\ UNCHANGED <<selServer, selTrackers, selCurrent, selEffectDue, createPc,
                 selCreated>>
  /\ CreateFrame

\* handleCreateWithDescription up to `await generateTrackerConfig(...)`:
\* "Generate with AI" in step 'needs-description', "Try Again" in step
\* 'error' once a description is typed.
handleCreateWithDescription ==
  /\ SelectorShown
  /\ createPc = "open"
  /\ ~creating
  /\ generationStep \in {"needs-description", "error"}
  /\ selCreated < MaxCreates
  /\ creating' = TRUE
  /\ generationStep' = "generating"
  /\ createCall' = [pc |-> "generate",
                    handler |-> "handleCreateWithDescription"]
  /\ UNCHANGED <<selServer, selTrackers, selCurrent, selEffectDue, createPc,
                 selCreated>>
  /\ CreateFrame

\* Results of generateTrackerConfig: a configuration, a request for a
\* description, a failure, or an exception.
GenerationOutcomes == {"success", "needsDescription", "failed", "throws"}

\* generateTrackerConfig settles.  handleCreateTracker asks for a description
\* when told to; both handlers show the error step on a failure and in their
\* catch block, then setCreating(false); with a configuration they go on to
\* `await trackerService.createTracker(...)`.
GenerateReturns(outcome) ==
  /\ createCall.pc = "generate"
  /\ IF outcome = "success"
     THEN /\ createCall' = [createCall EXCEPT !.pc = "store"]
          /\ UNCHANGED <<creating, generationStep>>
     ELSE /\ generationStep' =
               IF /\ outcome = "needsDescription"
                  /\ createCall.handler = "handleCreateTracker"
               THEN "needs-description" ELSE "error"
          /\ creating' = FALSE
          /\ createCall' = NoCreateCall
  /\ UNCHANGED <<selServer, selTrackers, selCurrent, selEffectDue, createPc,
                 selCreated>>
  /\ CreateFrame

\* handleCreateGeneric up to `await trackerService.createTracker(...)`: "Use
\* Generic Setup", offered in steps 'needs-description' and 'error'.
handleCreateGeneric ==
  /\ SelectorShown
  /\ createPc = "open"
  /\ ~creating
  /\ generationStep \in {"needs-description", "error"}
  /\ selCreated < MaxCreates
  /\ creating' = TRUE
  /\ createCall' = [pc |-> "store", handler |-> "handleCreateGeneric"]
  /\ UNCHANGED <<selServer, selTrackers, selCurrent, selEffectDue, createPc,
                 selCreated, generationStep>>
  /\ CreateFrame

\* A preset button of step 'input', up to its await of createTracker.
CreatePresetClick ==
  /\ SelectorShown
  /\ createPc = "open"
  /\ ~creating
  /\ generationStep = "input"
  /\ selCreated < MaxCreates
  /\ creating' = TRUE
  /\ createCall' = [pc |-> "store", handler |-> "preset"]
  /\ UNCHANGED <<selServer, selTrackers, selCurrent, selEffectDue, createPc,
                 selCreated, generationStep>>
  /\ CreateFrame

\* createTracker settles.  With the new tracker: it is appended, made
\* current and the dialog reset; the preset button then clears creating,
\* the three handlers go on to `await generateTrackerImage(...)` and clear
\* it only after that.  With an error: a toast (none for the preset
\* button), then setCreating(false); generationStep is left as it is.
CreateTrackerReturns(ok) ==
  /\ createCall.pc = "store"
  /\ IF ok
     THEN LET new == Cardinality(InitialTrackers) + selCreated + 1
          IN /\ selServer' = selServer \cup {new}
             /\ selTrackers' = Append(selTrackers, new)
             /\ onTrackerChange(new)
             /\ selCreated' = selCreated + 1
             /\ createPc' = "closed"
             /\ generationStep' = "input"
             /\ IF createCall.handler = "preset"
                THEN creating' = FALSE /\ createCall' = NoCreateCall
                ELSE /\ createCall' = [createCall EXCEPT !.pc = "image"]
                     /\ UNCHANGED creating
     ELSE /\ creating' = FALSE
          /\ createCall' = NoCreateCall
          /\ UNCHANGED <<selServer, selTrackers, selCurrent, selEffectDue,
                         selCreated, createPc, generationStep>>
  /\ CreateFrame

\* Results of generateTrackerImage and of updateTrackerImage.
ImageOutcomes == {"success", "failed", "throws"}

\* generateTrackerImage settles, then updateTrackerImage: a failure or an
\* exception of either is swallowed (console.warn), and the handler runs
\* its last statement, setCreating(false).
ImageCallReturns(outcome) ==
  /\ createCall.pc \in {"image", "update"}
  /\ IF createCall.pc = "image" /\ outcome = "success"
     THEN /\ createCall' = [createCall EXCEPT !.pc = "update"]
          /\ UNCHANGED creating
     ELSE /\ creating' = FALSE
          /\ createCall' = NoCreateCall
  /\ UNCHANGED <<selServer, selTrackers, selCurrent, selEffectDue, createPc,
                 selCreated, generationStep>>
  /\ CreateFrame

\* ------------------------------------------- default-tracker provisioning
\* The trackers table of one user (20251225_001_create_trackers.sql) with
\* the two ways a row flagged is_default reaches it: the store's own
\* provisioning functions, and the onboarding screen's createTracker calls.
\* A row is [id, is_default]; the table has no constraint on is_default.
DefaultRows(rows) == {r \in rows : r.is_default}
\* id UUID PRIMARY KEY DEFAULT gen_random_uuid(): an id not yet in use.
NewRowId(rows) == Cardinality(rows) + 1

ProvFrame == UNCHANGED <<adapterVars, reachable, nEvents, logVars, cfgVars,
                         selVars, appVars, uiVars>>

\* INSERT INTO trackers (...) VALUES (..., is_default) RETURNING id
InsertTracker(rows, isDefault) ==
  rows \cup {[id |-> NewRowId(rows), is_default |-> isDefault]}

\* create_default_tracker(p_user_id): inserts the 'Chronic Pain' preset
\* tracker with is_default = true, whatever the table holds.
create_default_tracker(rows) == InsertTracker(rows, TRUE)

\* The user's row in auth.users is inserted: the AFTER INSERT trigger
\* on_auth_user_created_tracker provisions the default tracker, and the
\* user has a tracker when the application loads.
create_default_tracker_for_new_user ==
  /\ ~dbUser
  /\ dbUser' = TRUE
  /\ dbTrackers' = create_default_tracker(dbTrackers)
  /\ UNCHANGED <<ensureIds, ensureCreated, wsShown, creatingPreset,
                 wsCreating, wsCalls, wsClicks>>
  /\ ProvFrame

\* A user whose auth.users row predates the trigger and who had no entry
\* to migrate (the DO block visits users of pain_entries only) has no
\* tracker: the application shows the onboarding screen.
UserPredatesTrigger ==
  /\ ~dbUser
  /\ dbUser' = TRUE
  /\ wsShown' = TRUE
  /\ UNCHANGED <<dbTrackers, ensureIds, ensureCreated, creatingPreset,
                 wsCreating, wsCalls, wsClicks>>
  /\ ProvFrame

\* migrate_user_to_trackers(p_user_id), one call: SELECT id ... WHERE
\* is_default = true LIMIT 1 carries no ORDER BY, so with several rows
\* flagged default it yields any one of them; NULL when there is none, and
\* then create_default_tracker runs.  The id it returns is recorded.
migrate_user_to_trackers ==
  /\ dbUser
  /\ Len(ensureIds) < MaxEnsures
  /\ IF DefaultRows(dbTrackers) # {}
     THEN /\ \E r \in DefaultRows(dbTrackers) :
               ensureIds' = Append(ensureIds, r.id)
          /\ UNCHANGED <<dbTrackers, ensureCreated>>
     ELSE /\ dbTrackers' = create_default_tracker(dbTrackers)
          /\ ensureIds' = Append(ensureIds, NewRowId(dbTrackers))
          /\ ensureCreated' = ensureCreated + 1
  /\ UNCHANGED <<dbUser, wsShown, creatingPreset, wsCreating, wsCalls,
                 wsClicks>>
  /\ ProvFrame

\* WelcomeScreen, TRACKER_PRESETS cards: the card of creatingPreset alone
\* ignores clicks (pointer-events-none), every other card stays live.
OnboardingPresets == {"chronic_pain", "mood"}

\* handlePresetClick(presetId) up to its await of createTracker.  The screen
\* is the one for users who have no trackers yet.
handlePresetClick(presetId) ==
  /\ wsShown /\ dbTrackers = {}
  /\ wsClicks < MaxClicks
  /\ presetId # creatingPreset
  /\ creatingPreset' = presetId
  /\ wsCalls' = Append(wsCalls, [kind |-> "preset", presetId |-> presetId])
  /\ wsClicks' = wsClicks + 1
  /\ UNCHANGED <<dbUser, dbTrackers, ensureIds, ensureCreated, wsShown,
                 wsCreating>>
  /\ ProvFrame

\* handleCustomSubmit up to its first await (generateTrackerConfig); the
\* submit button is disabled while creating.
handleCustomSubmit ==
  /\ wsShown /\ dbTrackers = {}
  /\ wsClicks < MaxClicks
  /\ ~wsCreating
  /\ wsCreating' = TRUE
  /\ wsCalls' = Append(wsCalls, [kind |-> "generate", presetId |-> NULL])
  /\ wsClicks' = wsClicks + 1
  /\ UNCHANGED <<dbUser, dbTrackers, ensureIds, ensureCreated, wsShown,
                 creatingPreset>>
  /\ ProvFrame

\* generateTrackerConfig returns or throws: either way a configuration is
\* at hand (the generic one as fallback) and createTracker is called.
GenerateConfigReturns(k) ==
  /\ k \in DOMAIN wsCalls
  /\ wsCalls[k].kind = "generate"
  /\ wsCalls' = [wsCalls EXCEPT ![k] = [kind |-> "custom", presetId |-> NULL]]
  /\ UNCHANGED <<dbUser, dbTrackers, ensureIds, ensureCreated, wsShown,
                 creatingPreset, wsCreating, wsClicks>>
  /\ ProvFrame

\* trackerService.createTracker({..., is_default: true}) returns to the
\* handler that awaits it.  With data the row is stored and
\* onTrackerCreated hands the tracker to the parent, which leaves
\* onboarding; with an error a toast is shown.  finally: the handler clears
\* its own busy flag.
CreateTrackerCallReturns(k, ok) ==
  /\ k \in DOMAIN wsCalls
  /\ wsCalls[k].kind \in {"preset", "custom"}
  /\ IF ok
     THEN /\ dbTrackers' = InsertTracker(dbTrackers, TRUE)
          /\ wsShown' = FALSE
     ELSE UNCHANGED <<dbTrackers, wsShown>>
  /\ IF wsCalls[k].kind = "preset"
     THEN creatingPreset' = NULL /\ UNCHANGED wsCreating
     ELSE wsCreating' = FALSE /\ UNCHANGED creatingPreset
  /\ wsCalls' = SubSeq(wsCalls, 1, k - 1) \o
                SubSeq(wsCalls, k + 1, Len(wsCalls))
  /\ UNCHANGED <<dbUser, ensureIds, ensureCreated, wsClicks>>
  /\ ProvFrame

\* ------------------------------------------ port subscription, alone
\* The function the port's onAuthStateChange registers with the provider,
\* invoked with event e and session user s for a subscriber that records
\* every callback it receives.
ForwardEvent(e, s) ==
  /\ Len(pushed) < MaxLog
  /\ pushed' = Append(pushed, <<e, s>>)
  /\ delivered' = IF mappedEvent(e) = "IGNORED" THEN delivered
                  ELSE Append(delivered, <<mappedEvent(e), s>>)
  /\ UNCHANGED <<adapterVars, reachable, nEvents, appVars, uiVars, cfgVars,
                 selVars, provVars>>

CompInit ==
  /\ pushed = <<>>
  /\ delivered = <<>>
  /\ cfgPc = "idle"
  /\ cfgPresetId = NULL
  /\ cfgGenerated = JsNull
  /\ cfgConfig = InheritedMember
  /\ cfgValue = 0
  /\ cfgLabel = ""
  /\ cfgColor = ""
  /\ selServer = InitialTrackers
  /\ selDeleted = {}
  /\ selTrackers = <<>>
  /\ selCurrent = NoTracker
  /\ selLoading = TRUE
  /\ selEffectDue = TRUE
  /\ selLoads = <<>>
  /\ trackerToDelete = NoTracker
  /\ deleteDialogOpen = FALSE
  /\ deleting = FALSE
  /\ delCall = NoDelete
  /\ createPc = "closed"
  /\ selCreated = 0
  /\ creating = FALSE
  /\ generationStep = "input"
  /\ createCall = NoCreateCall
  /\ dbUser = FALSE
  /\ dbTrackers = {}
  /\ ensureIds = <<>>
  /\ ensureCreated = 0
  /\ wsShown = FALSE
  /\ creatingPreset = NULL
  /\ wsCreating = FALSE
  /\ wsCalls = <<>>
  /\ wsClicks = 0

\* ------------------------------------------------------------ behaviour
\* State once the adapter module is loaded and the App is mounted: the
\* module's initial validation (1) and the one started by the App's
\* auth.getSession() (2) both await getUser(); the timer is armed.
Init ==
  /\ currentUser = NULL
  /\ initialValidationComplete = FALSE
  /\ val = [i \in 1..MaxVal |->
              IF i = 1 THEN StartedVal("init")
              ELSE IF i = 2 THEN StartedVal("getSession")
              ELSE NoVal]
  /\ nval = 2
  /\ gs = [pc |-> "validating", vid |-> 2, res |-> NULL]
  /\ cacheWriter = <<"decl", 0>>
  /\ reachable = TRUE
  /\ nEvents = 0
  /\ user = NULL
  /\ authLoading = TRUE
  /\ initPc = "racing"
  /\ initOutcome = "none"
  /\ initSignOuts = 0
  /\ entries = <<>>
  /\ emailConfirmed = FALSE
  /\ passwordRecoveryOpen = FALSE
  /\ urlMarker \in BOOLEAN
  /\ toast = "none"
  /\ effectsDue = FALSE
  /\ loading = TRUE
  /\ currentTracker = NULL
  /\ ensureInFlight = <<>>
  /\ ops = [k \in 1..MaxOps |-> NoOp]
  /\ nextId = FirstNewId
  /\ editingEntry = NoEntry
  /\ showForm = FALSE
  /\ newPassword = ""
  /\ confirmPassword = ""
  /\ updatingPassword = FALSE
  /\ pwPc = "idle"
  /\ signOutPc = "idle"
  /\ CompInit

Next ==
  \/ \E i \in 1..MaxVal, o \in GetUserOutcomes : ValGetUserReturns(i, o)
  \/ \E i \in 1..MaxVal, o \in CallOutcomes : ValSignOutTryReturns(i, o)
  \/ \E i \in 1..MaxVal, o \in CallOutcomes : ValSignOutCatchReturns(i, o)
  \/ \E o \in GetSessionOutcomes : GsTokensReturns(o)
  \/ \E e \in ProviderEvents : \E s \in EventSessions(e) : ProviderEvent(e, s)
  \/ BackendLost
  \/ TimerFires
  \/ InitResume
  \/ \E o \in CallOutcomes : InitCleanupReturns(o)

Spec == Init /\ [][Next]_vars

\* Scheduling guarantees: an armed timer fires, a settled promise resumes
\* its awaiter, and a reachable backend answers every call.  Nothing
\* obliges an unreachable backend to answer, nor the provider to push
\* events.
Returns ==
  \/ \E i \in 1..MaxVal, o \in GetUserOutcomes : ValGetUserReturns(i, o)
  \/ \E i \in 1..MaxVal, o \in CallOutcomes : ValSignOutTryReturns(i, o)
  \/ \E i \in 1..MaxVal, o \in CallOutcomes : ValSignOutCatchReturns(i, o)
  \/ \E o \in GetSessionOutcomes : GsTokensReturns(o)
  \/ \E o \in CallOutcomes : InitCleanupReturns(o)

FairSpec ==
  /\ Init /\ [][Next]_vars
  /\ WF_vars(TimerFires)
  /\ WF_vars(InitResume)
  /\ WF_vars(Returns)

\* The App once its initial check has accepted a session for u: both
\* validations returned u, the tokens were read, and the effects that
\* depend on user are due.
Validated(u) ==
  [i \in 1..MaxVal |->
     IF i = 1 THEN [pc |-> "done", owner |-> "init", res |-> u, so |-> 0]
     ELSE IF i = 2
     THEN [pc |-> "done", owner |-> "getSession", res |-> u, so |-> 0]
     ELSE NoVal]

AppInit ==
  /\ currentUser = "u1"
  /\ initialValidationComplete = TRUE
  /\ val = Validated("u1")
  /\ nval = 2
  /\ gs = [pc |-> "resolved", vid |-> 2, res |-> "u1"]
  /\ cacheWriter = <<"val", 2>>
  /\ reachable = TRUE
  /\ nEvents = 0
  /\ user = "u1"
  /\ authLoading = FALSE
  /\ initPc = "done"
  /\ initOutcome = "session"
  /\ initSignOuts = 0
  /\ entries = <<>>
  /\ emailConfirmed = FALSE
  /\ passwordRecoveryOpen = FALSE
  /\ urlMarker \in BOOLEAN
  /\ toast = "none"
  /\ effectsDue = TRUE
  /\ loading = TRUE
  /\ currentTracker = NULL
  /\ ensureInFlight = <<>>
  /\ ops = [k \in 1..MaxOps |-> NoOp]
  /\ nextId = FirstNewId
  /\ editingEntry = NoEntry
  /\ showForm = FALSE
  /\ newPassword = ""
  /\ confirmPassword = ""
  /\ updatingPassword = FALSE
  /\ pwPc = "idle"
  /\ signOutPc = "idle"
  /\ CompInit

\* Steps of the adapter and of its environment that can follow the
\* initial check.
AdapterNext ==
  \/ \E i \in 1..MaxVal, o \in GetUserOutcomes : ValGetUserReturns(i, o)
  \/ \E i \in 1..MaxVal, o \in CallOutcomes : ValSignOutTryReturns(i, o)
  \/ \E i \in 1..MaxVal, o \in CallOutcomes : ValSignOutCatchReturns(i, o)
  \/ \E e \in ProviderEvents : \E s \in EventSessions(e) : ProviderEvent(e, s)

\* Steps that bring the App from a new user to the main view, or out of it.
LoadNext ==
  \/ RunEffects
  \/ \E found \in BOOLEAN : EnsureReturns(found, DefaultTracker)
  \/ \E k \in 1..MaxOps : \E data \in LoadResults(ops[k].tracker) :
       LoadReturns(k, TRUE, data, NoMessage)
  \/ \E k \in 1..MaxOps, m \in ErrorMessages : LoadReturns(k, FALSE, <<>>, m)
  \/ \E k \in 1..MaxOps, o \in CallOutcomes : ForcedSignOutReturns(k, o)

\* The signed-in user works on entries; the provider pushes nothing.
StoreNext ==
  \/ LoadNext
  \/ AddSubmit
  \/ \E k \in 1..MaxOps : AddReturns(k, TRUE, NoMessage)
  \/ \E k \in 1..MaxOps, m \in ErrorMessages : AddReturns(k, FALSE, m)
  \/ \E i \in 1..(MaxAdds + 1) : handleEditEntry(i)
  \/ UpdateSubmit
  \/ \E k \in 1..MaxOps : UpdateReturns(k, TRUE, NoMessage)
  \/ \E k \in 1..MaxOps, m \in ErrorMessages : UpdateReturns(k, FALSE, m)
  \/ \E i \in 1..(MaxAdds + 1) : DeleteClick(i)
  \/ \E k \in 1..MaxOps : DeleteReturns(k, TRUE, NoMessage)
  \/ \E k \in 1..MaxOps, m \in ErrorMessages : DeleteReturns(k, FALSE, m)
  \/ OpenForm
  \/ CancelForm
  \/ \E t \in Trackers : SelectTracker(t)

StoreSpec == AppInit /\ [][StoreNext]_vars

\* The provider pushes events while the user signs out; entries are only
\* loaded.
SignOutNext ==
  \/ AdapterNext
  \/ LoadNext
  \/ SignOutClick
  \/ \E o \in CallOutcomes : HandleSignOutReturns(o)

SignOutSpec == AppInit /\ [][SignOutNext]_vars

\* The provider pushes events while the user works in the password
\* recovery dialog; entries are only loaded.
RecoveryNext ==
  \/ AdapterNext
  \/ LoadNext
  \/ \E p \in Passwords : TypeNewPassword(p)
  \/ \E p \in Passwords : TypeConfirmPassword(p)
  \/ PasswordSubmit
  \/ \E o \in CallOutcomes : PasswordUpdateReturns(o)
  \/ DismissRecovery

RecoverySpec == AppInit /\ [][RecoveryNext]_vars

\* The provider pushes events to a recording subscriber of the port.
ForwardNext ==
  \E e \in ProviderEvents : \E s \in EventSessions(e) : ForwardEvent(e, s)

\* The App from its mount while the server leaves the initial check's
\* getUser() calls unanswered: the provider pushes events, the 5 s timer
\* ends the check, and the effects run whenever user or currentTracker changed.
BootNext ==
  \/ \E e \in ProviderEvents : \E s \in EventSessions(e) : ProviderEvent(e, s)
  \/ TimerFires
  \/ LoadNext

BootSpec == Init /\ [][BootNext]_vars

ForwardSpec == Init /\ [][ForwardNext]_vars

\* Components resolve tracker configurations and render intensities.
ConfigNext ==
  \/ \E presetId \in PresetIdInputs : \E c \in GeneratedChoices :
       ResolveConfig(presetId, GeneratedInput(c[1], c[2], c[3]))
  \/ \E value \in IntensityInputs : RenderIntensity(value)

ConfigSpec == Init /\ [][ConfigNext]_vars

\* The user works the tracker selector; the tracker service answers.
SelectorNext ==
  \/ RunLoadEffect
  \/ \E i \in 1..MaxLoads : \E ok \in BOOLEAN : LoadTrackersReturns(i, ok)
  \/ \E t \in 1..(Cardinality(InitialTrackers) + MaxCreates) : SelectItem(t)
  \/ \E t \in 1..(Cardinality(InitialTrackers) + MaxCreates) :
       OpenDeleteDialog(t)
  \/ CloseDeleteDialog
  \/ handleDeleteTracker
  \/ \E ok \in BOOLEAN : DeleteTrackerReturns(ok)
  \/ OpenCreateDialog
  \/ resetCreateDialog
  \/ handleCreateTracker
  \/ handleCreateWithDescription
  \/ \E outcome \in GenerationOutcomes : GenerateReturns(outcome)
  \/ handleCreateGeneric
  \/ CreatePresetClick
  \/ \E ok \in BOOLEAN : CreateTrackerReturns(ok)
  \/ \E outcome \in ImageOutcomes : ImageCallReturns(outcome)

SelectorSpec == Init /\ [][SelectorNext]_vars

\* The trackers table of one user, its provisioning functions and the
\* onboarding screen.
ProvisionNext ==
  \/ create_default_tracker_for_new_user
  \/ UserPredatesTrigger
  \/ migrate_user_to_trackers
  \/ \E presetId \in OnboardingPresets : handlePresetClick(presetId)
  \/ handleCustomSubmit
  \/ \E k \in 1..MaxClicks : GenerateConfigReturns(k)
  \/ \E k \in 1..MaxClicks, ok \in BOOLEAN : CreateTrackerCallReturns(k, ok)

ProvisionSpec == Init /\ [][ProvisionNext]_vars

\* ================================================================ claims

\* signOut() calls made so far on the path of the App's initial check: by
\* the validation that getSession delegates to and by the catch block.
InitPathSignOuts == val[gs.vid].so + initSignOuts

\* C1: when the initial authoritative check times out or errors, the App
\* ends Unauthenticated (user = null, authLoading = false) and provider
\* signOut has been invoked exactly once on that path.
C1_FailClosedOneSignOut ==
  [][(initPc # "done" /\ initPc' = "done" /\ initOutcome' # "session")
       => (user' = NULL /\ ~authLoading' /\ InitPathSignOuts' = 1)]_vars

\* C2: initial validation always terminates: authLoading eventually becomes
\* false, leaving user = null when getSession never resolved.
C2_ValidationTerminates == <>(~authLoading)

\* C3: validateSessionWithServer never rejects, whatever getUser and signOut
\* do: it always resolves to a user or to null.
C3_ValidateNeverRejects == \A i \in 1..MaxVal : val[i].pc # "rejected"

\* C4: the cached user is non-null only when the last write to it came from
\* a successful server validation (getUser returned that user); a provider
\* event only clears the cache or starts a validation, it never copies the
\* user of its payload into the cache.
C4_CacheOnlyFromValidation ==
  /\ [](currentUser # NULL =>
          /\ cacheWriter[1] = "val"
          /\ val[cacheWriter[2]].pc = "done"
          /\ val[cacheWriter[2]].res = currentUser)
  /\ [][nEvents' # nEvents => currentUser' \in {currentUser, NULL}]_vars

\* C4 witness: an event carrying a session for another user than the cached,
\* validated one has been pushed.
C4_Witness ==
  /\ currentUser # NULL
  /\ nEvents > 0
  /\ user \in Users \ {currentUser}

NoneInFlight == \A i \in 1..MaxVal : ~InFlight(i)

\* C5: when validations overlapped and all have completed, the cache holds
\* the result of the validation that was started last (as long as no other
\* writer touched the cache after them).
C5_LatestStartedWins ==
  (NoneInFlight /\ cacheWriter[1] = "val") => currentUser = val[nval].res

\* C6: the App starts in Validating; authLoading changes only once, from
\* true to false, when the initial validation finishes, and at that step
\* user is the validated session's user if getSession won the race with a
\* session, and null on a null result, a timeout or an error.
C6_ValidatingExit ==
  /\ authLoading = TRUE
  /\ user = NULL
  /\ [][authLoading' # authLoading =>
          /\ authLoading /\ initPc # "done" /\ initPc' = "done"
          /\ user' = IF initPc = "racing" /\ gs.pc = "resolved"
                        /\ gs.res # NULL
                     THEN val[gs.vid].res ELSE NULL]_vars

\* C6 witness: the validation ended with a session and the App left
\* Validating with that session's user, before any provider event.
C6_Witness ==
  ~authLoading /\ nEvents = 0 /\ initOutcome = "session" /\ user \in Users

\* C7: every error path of the adapter that clears the cache and returns
\* null (server check failed or threw, token session missing) has invoked
\* provider signOut before returning.
C7_NullMeansSignedOut ==
  /\ \A i \in 1..MaxVal :
       (val[i].pc = "done" /\ val[i].res = NULL) => val[i].so >= 1
  /\ (gs.pc = "resolved" /\ gs.res = NULL) => val[gs.vid].so >= 1

\* The store returned an error with message m to persistence handler k.
StoreFails(k, m) ==
  \/ LoadReturns(k, FALSE, <<>>, m)
  \/ AddReturns(k, FALSE, m)
  \/ UpdateReturns(k, FALSE, m)
  \/ DeleteReturns(k, FALSE, m)

\* The messages tried that contain an authorization marker.
MarkedMessages == {m \in ErrorMessages : HasAuthMarker(m)}

GenericFailures ==
  {"load_failed", "save_failed", "update_failed", "delete_failed"}

\* C8: for every persistence operation, a store error whose message
\* contains an authorization marker (case-insensitive) makes the App call
\* provider signOut instead of reporting a generic failure, and once that
\* call has settled user is null; an error without a marker is reported as
\* a generic failure and leaves the user signed in.
C8_AuthErrorForcesSignOut ==
  [][\A k \in 1..MaxOps :
       /\ \A m \in ErrorMessages :
            StoreFails(k, m) =>
              IF m \in MarkedMessages
              THEN ops'[k].pc = "signOut" /\ toast' = "session_expired"
              ELSE user' = user /\ toast' \in GenericFailures
       /\ \A o \in CallOutcomes :
            ForcedSignOutReturns(k, o) => user' = NULL]_vars

RecoveryEntersAndStays ==
  /\ (\E s \in Users : ProviderEvent("PASSWORD_RECOVERY", s))
       => passwordRecoveryOpen'
  /\ (PasswordSubmit
        /\ PasswordRejected(newPassword, confirmPassword) # "none")
       => (passwordRecoveryOpen' /\ pwPc' = pwPc)
  /\ (PasswordUpdateReturns("error") \/ PasswordUpdateReturns("throw"))
       => passwordRecoveryOpen' = passwordRecoveryOpen

RecoveryCloses == passwordRecoveryOpen /\ ~passwordRecoveryOpen'

\* C10: the recovery dialog opens on a PASSWORD_RECOVERY event and closes
\* only after auth.updatePassword has returned without error; a rejected
\* password or a provider error leaves it open.
C10_ClosesOnlyAfterUpdate ==
  [][/\ RecoveryEntersAndStays
     /\ RecoveryCloses => PasswordUpdateReturns("ok")]_vars

\* C10, amended: the recovery dialog opens on a PASSWORD_RECOVERY event and
\* closes only after auth.updatePassword has returned without error or when
\* the user dismisses it (Cancel, or the dialog's own close request); a
\* rejected password or a provider error leaves it open.
C10_ClosesAfterUpdateOrDismissal ==
  [][/\ RecoveryEntersAndStays
     /\ RecoveryCloses => (PasswordUpdateReturns("ok") \/ DismissRecovery)]_vars

\* C10 witness: the dialog has just been closed by a successful password
\* update, which also cleared both fields.
C10_Witness ==
  /\ ~passwordRecoveryOpen
  /\ toast = "password_updated"
  /\ newPassword = "" /\ confirmPassword = ""
  /\ nEvents > 0

\* Event kinds C11 says reach the subscriber, and how.
ForwardedKinds ==
  {"SIGNED_IN", "SIGNED_OUT", "TOKEN_REFRESHED", "PASSWORD_RECOVERY",
   "INITIAL_SESSION"}

AsDelivered(ev) ==
  IF ev[1] = "INITIAL_SESSION" THEN <<"SIGNED_IN", ev[2]>> ELSE ev

ExpectedDeliveries(log) ==
  LET kept == SelectSeq(log, LAMBDA ev : ev[1] \in ForwardedKinds)
  IN  [i \in 1..Len(kept) |-> AsDelivered(kept[i])]

\* C11: the callbacks the subscriber has received are, in arrival order and
\* one per event, the SIGNED_IN, SIGNED_OUT, TOKEN_REFRESHED and
\* PASSWORD_RECOVERY events pushed so far with their sessions, with
\* INITIAL_SESSION delivered as SIGNED_IN and every other kind left out.
C11_ForwardsInOrder ==
  /\ Len(delivered) = Len(ExpectedDeliveries(pushed))
  /\ \A i \in 1..Len(delivered) :
       delivered[i] = ExpectedDeliveries(pushed)[i]

\* C11 witness: a recovery event, an INITIAL_SESSION and an event of
\* another kind have all been pushed.
C11_Witness ==
  /\ \E i \in 1..Len(pushed) : pushed[i][1] = "PASSWORD_RECOVERY"
  /\ \E i \in 1..Len(pushed) : pushed[i][1] = "INITIAL_SESSION"
  /\ \E i \in 1..Len(pushed) : pushed[i][1] = "USER_UPDATED"
  /\ Len(delivered) = 2

\* C12: a SIGNED_IN delivery with a session (SIGNED_IN or INITIAL_SESSION
\* from the provider) raises the email-confirmed acknowledgment exactly
\* when the URL carries the confirmation marker; raising it removes the
\* marker and sets the flag; a marker once removed never comes back, so no
\* later event raises the acknowledgment again; user and authLoading after
\* the event are what they are without the marker.
C12_ConfirmationOnce ==
  [][/\ nEvents' # nEvents =>
          /\ \A e \in {"SIGNED_IN", "INITIAL_SESSION"} : \A s \in Users :
               ProviderEvent(e, s) =>
                 /\ (toast' = "email_confirmed") <=> urlMarker
                 /\ user' = s
                 /\ authLoading' = authLoading
          /\ (toast' = "email_confirmed") =>
               (urlMarker /\ ~urlMarker' /\ emailConfirmed')
     /\ ~urlMarker => (~urlMarker' /\ toast' # "email_confirmed")]_vars

\* C12 witness: the acknowledgment has just been raised for a signed-in
\* user and the marker is gone.
C12_Witness ==
  /\ toast = "email_confirmed"
  /\ emailConfirmed /\ ~urlMarker
  /\ user \in Users
  /\ nEvents > 0

\* C13: for every intensity 1..10 and every TrackerConfig getTrackerConfig
\* returns (a preset, a generated config with any scale tag, the generic
\* default), getIntensityLabel and getIntensityColor both select index
\* bucket(v) of their five-element arrays, bucket(v) being 0 for v <= 2,
\* 1 for v <= 4, 2 for v <= 6, 3 for v <= 8 and 4 otherwise; label and
\* colour never disagree at a boundary.
C13_LabelAndColorSameBucket ==
  (cfgPc = "rendered" /\ "getIntensityLabel" \in DOMAIN cfgConfig) =>
    LET bucket == IF cfgValue <= 2 THEN 0
                  ELSE IF cfgValue <= 4 THEN 1
                  ELSE IF cfgValue <= 6 THEN 2
                  ELSE IF cfgValue <= 8 THEN 3
                  ELSE 4
        labels == cfgConfig.getIntensityLabel.captured
        colors == cfgConfig.getIntensityColor.captured
    IN /\ Len(labels) = 5
       /\ Len(colors) = 5
       /\ \A i \in 1..5 : (labels[i] = cfgLabel) <=> (i = bucket + 1)
       /\ \A i \in 1..5 : (colors[i] = cfgColor) <=> (i = bucket + 1)

\* A generated low_bad config rendered at the boundary value 4: second
\* label, second colour.
C13_Witness ==
  /\ cfgPc = "rendered"
  /\ cfgValue = 4
  /\ Truthy(cfgGenerated)
  /\ cfgLabel = "Low"
  /\ cfgColor = "#f97316"

\* C14: getTrackerConfig called with a known preset id and a valid generated
\* config (complete, every string property non-empty, a recognised scale
\* tag) returns the config built from the generated config: its labels, its
\* vocabularies and the label set and palette of its intensityScale tag;
\* it never returns the preset's table entry.
C14_GeneratedWins ==
  LET generated == cfgGenerated.object
  IN (/\ cfgPc # "idle"
      /\ cfgPresetId \in KnownPresetIds
      /\ Truthy(cfgGenerated)
      /\ DOMAIN generated = GeneratedFields
      /\ \A name \in StringFields : generated[name] # ""
      /\ generated.intensityScale \in IntensityScales)
     => /\ CopiedFields \subseteq DOMAIN cfgConfig
        /\ \A name \in CopiedFields : cfgConfig[name] = generated[name]
        /\ cfgConfig.getIntensityLabel.captured
             = getIntensityLabels(generated.intensityScale)
        /\ cfgConfig.getIntensityColor.captured
             = getIntensityColors(generated.intensityScale)
        /\ cfgConfig.intensityLabel # configMap[cfgPresetId].intensityLabel
        /\ cfgConfig.locations # configMap[cfgPresetId].locations

\* The mood preset id together with a complete high_bad generated config.
C14_Witness ==
  /\ cfgPc = "resolved"
  /\ cfgPresetId = "mood"
  /\ Truthy(cfgGenerated)
  /\ DOMAIN cfgGenerated.object = GeneratedFields
  /\ \A name \in StringFields : cfgGenerated.object[name] # ""
  /\ cfgGenerated.object.intensityScale = "high_bad"
  /\ cfgConfig.addButtonLabel = "Log Reading"
  /\ cfgConfig.getIntensityColor.captured[5] = "#ef4444"

\* C15: a generated config in which one required string property is empty
\* is treated as invalid: getTrackerConfig does not use it and returns the
\* preset's config when presetId is a known preset, otherwise the generic
\* default, so no empty label is returned.
C15_EmptyFieldRejected ==
  LET generated == cfgGenerated.object
  IN (/\ cfgPc # "idle"
      /\ Truthy(cfgGenerated)
      /\ DOMAIN generated = GeneratedFields
      /\ \E name \in StringFields : generated[name] = "")
     => /\ cfgConfig = IF cfgPresetId \in KnownPresetIds
                       THEN configMap[cfgPresetId]
                       ELSE defaultConfig
        /\ \A name \in StringFields : Prop(cfgConfig, name) # ""

\* C16: getTrackerConfig is total: for every preset id (known, unknown,
\* null, undefined) and every generated config (absent, complete, with
\* missing or undefined properties, with an unrecognised intensityScale
\* tag) it returns, without throwing, a TrackerConfig in which every
\* mandatory field is defined.
C16_TotalAndFullyPopulated ==
  cfgPc # "idle" => MandatoryFields \subseteq DOMAIN cfgConfig

\* C17: getTrackerConfig(null, null), and the resolution for a null tracker
\* (preset_id and generated_config both undefined), returns the generic
\* default TrackerConfig: every mandatory field populated and the neutral
\* purple palette.
C17_NothingGivenIsGenericDefault ==
  (/\ cfgPc # "idle"
   /\ cfgPresetId \in {NULL, undefined}
   /\ cfgGenerated.kind \in {NULL, undefined})
  => /\ cfgConfig = defaultConfig
     /\ MandatoryFields \subseteq DOMAIN cfgConfig
     /\ \A name \in StringFields : cfgConfig[name] # ""
     /\ \A name \in ArrayFields \cap MandatoryFields : Len(cfgConfig[name]) > 0
     /\ cfgConfig.intensityLabel = "Level"
     /\ cfgConfig.getIntensityColor.captured
          = <<"#6366f1", "#8b5cf6", "#a855f7", "#c026d3", "#db2777">>
     /\ cfgPc = "rendered" => cfgColor \in {"#6366f1", "#8b5cf6", "#a855f7",
                                            "#c026d3", "#db2777"}

\* The null-tracker resolution rendered at intensity 5.
C17_Witness ==
  /\ cfgPc = "rendered"
  /\ cfgPresetId = undefined
  /\ cfgGenerated.kind = undefined
  /\ cfgValue = 5
  /\ cfgLabel = "Medium"
  /\ cfgColor = "#a855f7"

\* C18: with no generated config, getTrackerConfig returns for each of the
\* six known preset ids that preset's own hand-authored config and never
\* the generic default; with an unrecognised preset id it returns the
\* generic default.
C18_PresetOrGenericDefault ==
  LET Same(a, b) == /\ DOMAIN a = DOMAIN b
                    /\ \A name \in DOMAIN a : a[name] = b[name]
  IN (/\ cfgPc # "idle"
      /\ cfgGenerated.kind \in {NULL, undefined}
      /\ cfgPresetId \notin {NULL, undefined})
     => IF cfgPresetId \in KnownPresetIds
        THEN /\ Same(cfgConfig, configMap[cfgPresetId])
             /\ ~Same(cfgConfig, defaultConfig)
        ELSE Same(cfgConfig, defaultConfig)

\* C19: a TrackerConfig built from a generated config carries over every
\* field of the generated config unchanged (all scalar labels, the location
\* options, the triggers and the suggested hashtags) and adds only the two
\* intensity functions, bound to the config's intensityScale tag.
C19_BuiltCarriesEveryField ==
  LET generated == cfgGenerated.object
      carried == GeneratedFields \ {"intensityScale"}
  IN (/\ cfgPc # "idle"
      /\ Truthy(cfgGenerated)
      /\ DOMAIN generated = GeneratedFields)
     => /\ \A name \in carried :
             name \in DOMAIN cfgConfig /\ cfgConfig[name] = generated[name]
        /\ DOMAIN cfgConfig \ carried
             = {"getIntensityLabel", "getIntensityColor"}
        /\ cfgConfig.getIntensityLabel
             = buildIntensityLabelFn(generated.intensityScale)
        /\ cfgConfig.getIntensityColor
             = buildIntensityColorFn(generated.intensityScale)

\* C20: after any sequence of selections, creations and deletions through
\* the TrackerSelector, currentTracker is never a tracker that has been
\* deleted successfully: deleting the active tracker selects one of the
\* remaining trackers or, when none remains, signals that no tracker is
\* active.
C20_ActiveTrackerNeverDeleted == selCurrent \notin selDeleted


\* C21: two provisioning calls made one after the other for the same user
\* return the same tracker id, and together they insert at most one row.
C21_EnsureIdempotent ==
  /\ \A i, j \in DOMAIN ensureIds : ensureIds[i] = ensureIds[j]
  /\ ensureCreated <= 1

\* C22: the user never has two trackers flagged is_default, whatever
\* onboarding creations and provisioning calls have run.
C22_OneDefaultTracker == Cardinality(DefaultRows(dbTrackers)) <= 1


\* C23: once the new tracker is stored, added and selected, the create
\* flow's busy state is released: creating is not held while the image of
\* the tracker is generated or saved.
C23_ImageNeverBlocksCreate ==
  createCall.pc \in {"image", "update"} => ~creating

\* C29: generationStep is 'generating' only while creating is true.
C29_GeneratingOnlyWhileCreating ==
  generationStep = "generating" => creating


\* C24: when the selector chooses a tracker by itself (a load that was
\* started with no current tracker returns, or the deletion of the active
\* tracker returns), it chooses the tracker flagged default if that is among
\* the candidates and the first candidate otherwise; the candidates after a
\* deletion are the trackers the handler held without the deleted one, so
\* the deleted tracker is not chosen.
C24_Candidates ==
  IF delCall.pc = "service"
  THEN SelectSeq(delCall.trackers, LAMBDA t : t # delCall.trackerToDelete)
  ELSE selTrackers'

C24_AutoChoiceStep ==
  /\ selCurrent' # selCurrent
  /\ \/ delCall.pc = "service" /\ delCall'.pc = "idle"
     \/ Len(selLoads') < Len(selLoads)

C24_AutoChoice ==
  [][C24_AutoChoiceStep =>
       /\ \E i \in DOMAIN C24_Candidates : C24_Candidates[i] = selCurrent'
       /\ (\E i \in DOMAIN C24_Candidates : C24_Candidates[i] = DefaultId)
            => selCurrent' = DefaultId
       /\ (\A i \in DOMAIN C24_Candidates : C24_Candidates[i] # DefaultId)
            => selCurrent' = C24_Candidates[1]
       /\ delCall.pc = "service" => selCurrent' # delCall.trackerToDelete]_vars

\* The default tracker was the active one and was deleted; the selector
\* moved to the first remaining tracker.
C24_Witness ==
  /\ DefaultId \in selDeleted
  /\ delCall = NoDelete
  /\ selTrackers # <<>>
  /\ selCurrent = selTrackers[1]


\* C25: the intensity label and colour functions of a resolved configuration
\* answer for every integer: a value of 2 or less, zero and negatives
\* included, gets the first label and the first colour, a value of 9 or more
\* the last ones, and a value between them one of the five.
C25_IntensityFnsTotal ==
  (cfgPc = "rendered" /\ "getIntensityLabel" \in DOMAIN cfgConfig) =>
    LET labels == cfgConfig.getIntensityLabel.captured
        colors == cfgConfig.getIntensityColor.captured
    IN /\ cfgValue <= 2 => cfgLabel = labels[1] /\ cfgColor = colors[1]
       /\ cfgValue >= 9 => cfgLabel = labels[5] /\ cfgColor = colors[5]
       /\ \E i \in 1..5 : cfgLabel = labels[i]
       /\ \E i \in 1..5 : cfgColor = colors[i]

\* The chronic pain preset rendered at a negative value: first label, first
\* colour.
C25_Witness ==
  /\ cfgPc = "rendered"
  /\ cfgValue < 0
  /\ cfgPresetId = "chronic_pain"
  /\ ~Truthy(cfgGenerated)
  /\ cfgLabel = cfgConfig.getIntensityLabel.captured[1]
  /\ cfgColor = HIGH_BAD_COLORS[1]


\* C30: the App never has two ensureDefaultTracker calls in flight for the
\* same signed-in user.
C30_OneEnsureCallPerUser ==
  \A i, j \in DOMAIN ensureInFlight :
    i # j => ensureInFlight[i] # ensureInFlight[j]


\* C26: no request for protected data (ensureDefaultTracker, db.select on
\* pain_entries) is issued while authLoading is true.
C26_NoRequestWhileAuthLoading ==
  [][(\/ Len(ensureInFlight') > Len(ensureInFlight)
      \/ \E k \in 1..MaxOps : ops[k].kind # "load" /\ ops'[k].kind = "load")
     => ~authLoading]_vars


\* C27: once the listener has cleared the cache on an event without a
\* session, getUser() returns null until a validation started after that
\* event writes a user: a validation that was already in flight when the
\* event was processed does not restore the user.
C27_SignedOutStaysNull ==
  [][(cacheWriter[1] = "listener" /\ currentUser' # NULL)
       => (cacheWriter'[1] = "val" /\ cacheWriter'[2] > cacheWriter[2])]_vars


\* C28: whenever a tracker is selected, its effects have run and loading is
\* false, every entry of the list belongs to the current tracker.
C28_EntriesOfCurrentTracker ==
  (currentTracker # NULL /\ ~effectsDue /\ ~loading) =>
    \A i \in DOMAIN entries : entries[i].tracker_id = currentTracker

====
